---- MODULE Spec2Model ----
(***************************************************************************)
(* Model of the schedule-optimizer core: the constraint matrices, the      *)
(* deterministic greedy scheduler (DeterministicScheduler.schedule and     *)
(* _assign_patient) and the ScheduleValidator.                             *)
(*                                                                         *)
(* Indices are 1-based here (numpy's are 0-based); row-major order and all *)
(* comparisons are unaffected by the shift.                                *)
(***************************************************************************)
EXTENDS Integers, Sequences, FiniteSets, TLC

\* ---------------------------------------------------------------- bounds
\* patients + therapists + slots of an input is at most MaxShape
MaxShape == 5
\* a requirement is one slot or MaxReqSlots slots
MaxReqSlots == 2

\* a schedule handed to the validator has at most MaxAssignments assignments
MaxAssignments == 4
\* patients + therapists + slots of the matrices a schedule is validated
\* against is at most MaxCheckedShape
MaxCheckedShape == 4
\* patient records + therapist records of the raw files of a tool session
MaxRecords == 2
\* therapist records of a day whose matrices are built from raw records
MaxStaff == 2
\* DataStore.session() contexts are nested at most MaxDepth deep
MaxDepth == 3
\* mkdtemp creates at most MaxDirs directories in all
MaxDirs == 3

\* ------------------------------------------------------ program constants
SLOT_MINUTES == 20
SENTINEL == 1000
WORKLOAD_WEIGHT == 5
PRIMARY_SCORE == 100
BASE_SCORE == 20
SAME_WARD_BONUS == 20
SAME_GENDER_BONUS == 40
NUM_TIMESLOTS == 18
SCENARIO_A_MINUTES == 120
MORNING_SPLIT == 8
REQ_CEREBROVASCULAR == 180
REQ_DEFAULT == 120

Wards == {"3E", "4W"}
Genders == {"M", "F"}

\* Compatibility scores the general inputs are drawn from.
CompatValues == {0, PRIMARY_SCORE}

\* Requirements (minutes) the general inputs are drawn from.
ReqValues == {SLOT_MINUTES, SLOT_MINUTES * MaxReqSlots}

VARIABLES
    matrices,             \* the ConstraintMatrices object handed to schedule()
    pc,                   \* position of the run
    patient_avail,        \* working copy of the patient availability
    therapist_avail,      \* working copy of the therapist availability
    patient_order,        \* np.argsort(-requirements)
    pos,                  \* position in patient_order of the current patient
    available_slots,      \* _assign_patient: slots of the current patient
    cost_matrix,          \* _assign_patient: rows follow available_slots
    patient_assignments,  \* _assign_patient: its local list `assignments`
    assigned_slots,       \* _assign_patient: loop counter
    assignments,          \* schedule(): assignments of the finished patients
    unscheduled,          \* schedule(): ids of the patients reported infeasible
    result,               \* the Schedule returned by the latest finished call
    previous,             \* the Schedule returned by the call before that
    validation,           \* the ValidationResult of the latest validate() call
    therapists,           \* normalized therapist records (builder input)
    prescriptions,        \* normalized prescription records (builder input)
    argsort,              \* what np.argsort returns for -requirements here
    store,                \* the DataStore object and its session directory
    contexts,             \* the open DataStore.session() contexts, outermost first
    raw,                  \* the raw input files of the hospital
    tool,                 \* the agent tool call or the command in flight
    response,             \* what the latest finished call gave its caller
    session_datastores,   \* the entrypoint's dict: session id -> DataStore
    request,              \* the invoke() call in progress and its data_store
    interim               \* the directory data/interim of the command line

vars == <<matrices, pc, patient_avail, therapist_avail, patient_order,
          pos, available_slots, cost_matrix, patient_assignments,
          assigned_slots, assignments, unscheduled, result, previous,
          validation, therapists, prescriptions, argsort, store, contexts,
          raw, tool, response, session_datastores, request, interim>>

\* what the scheduler core never touches
env == <<argsort, store, contexts, raw, tool, response, session_datastores,
         request, interim>>

\* ------------------------------------------------------------- data model
NoSchedule == [returned |-> FALSE, assignments |-> <<>>, unscheduled_patients |-> <<>>]

Schedule(asg, uns) ==
    [returned |-> TRUE, assignments |-> asg, unscheduled_patients |-> uns]

Assignment(pid, tid, ts) ==
    [patient_id |-> pid, therapist_id |-> tid, timeslot |-> ts,
     duration_minutes |-> SLOT_MINUTES]

\* the ids of the records, in input order (pairwise different, as the
\* builder takes them with unique())
PatientIds == <<"1001", "1002", "1003", "1004", "1005", "1006", "1007", "1008">>
TherapistIds == <<"T001", "T002", "T003", "T004", "T005", "T006", "T007", "T008">>

ConstraintMatrices(np, nt, ns, pa, ta, co, rq) ==
    [patient_availability |-> pa,
     therapist_availability |-> ta,
     compatibility |-> co,
     requirements |-> rq,
     patient_ids |-> SubSeq(PatientIds, 1, np),
     therapist_ids |-> SubSeq(TherapistIds, 1, nt),
     timeslots |-> [s \in 1..ns |-> s]]

NumPatients(m) == Len(m.patient_ids)
NumTherapists(m) == Len(m.therapist_ids)
NumTimeslots(m) == Len(m.timeslots)

\* ------------------------------------------------------------ pure helpers
Range(f) == {f[k] : k \in 1..Len(f)}

RECURSIVE SumUpTo(_, _)
\* f[1] + ... + f[n]
SumUpTo(f, n) == IF n = 0 THEN 0 ELSE f[n] + SumUpTo(f, n - 1)

RECURSIVE SelectIdx(_, _, _)
\* indices k..n of row (a function on 1..n) whose entry is 1, ascending
SelectIdx(row, k, n) ==
    IF k > n THEN <<>>
    ELSE IF row[k] = 1 THEN <<k>> \o SelectIdx(row, k + 1, n)
         ELSE SelectIdx(row, k + 1, n)

\* np.where(row == 1)[0]
WhereOne(row, n) == SelectIdx(row, 1, n)

IndexOrders(n) ==
    {f \in [1..n -> 1..n] : \A a, b \in 1..n : a # b => f[a] # f[b]}

\* np.argsort(-requirements): the indices by descending requirement. The
\* call uses numpy's default sort kind, which is not stable: the order among
\* equal requirements is whatever the sort of the build at hand yields, so
\* every descending index order is an outcome.
ArgsortDesc(rq, n) ==
    {f \in IndexOrders(n) : \A k \in 1..(n - 1) : rq[f[k]] >= rq[f[k + 1]]}

Before(rq, a, b) == rq[a] > rq[b] \/ (rq[a] = rq[b] /\ a < b)

\* the outcome of a build whose sort keeps equal requirements in input order
StableOrder(rq, n) ==
    [k \in 1..n |->
        CHOOSE i \in 1..n : Cardinality({j \in 1..n : Before(rq, j, i)}) = k - 1]

\* np.sum(1 - therapist_avail, axis=1)[j]
TherapistAssignments(ta, j, ns) == SumUpTo([s \in 1..ns |-> 1 - ta[j][s]], ns)

WorkloadPenalty(ta, j, ns) == TherapistAssignments(ta, j, ns) * WORKLOAD_WEIGHT

\* mutant: the therapist's availability in the slot is not consulted
CellCostIgnoringShift(m, ta, p, j, slot) ==
    IF m.compatibility[p][j] > 0
    THEN (0 - m.compatibility[p][j]) + WorkloadPenalty(ta, j, NumTimeslots(m))
    ELSE SENTINEL

\* one cell of the cost matrix (scheduler.py lines 79-86)
CellCost(m, ta, p, j, slot) ==
    IF ta[j][slot] = 1
    THEN IF m.compatibility[p][j] > 0
         THEN (0 - m.compatibility[p][j]) + WorkloadPenalty(ta, j, NumTimeslots(m))
         ELSE SENTINEL
    ELSE SENTINEL

BuildCostMatrix(m, ta, p, avs) ==
    [i \in 1..Len(avs) |-> [j \in 1..NumTherapists(m) |-> CellCost(m, ta, p, j, avs[i])]]

CostCells(cm, nt) == {<<i, j>> : i \in 1..Len(cm), j \in 1..nt}

\* cost_matrix.min()
CostMin(cm, nt) ==
    CHOOSE v \in {cm[c[1]][c[2]] : c \in CostCells(cm, nt)} :
        \A c \in CostCells(cm, nt) : v <= cm[c[1]][c[2]]

RowMajorBefore(c, d) == c[1] < d[1] \/ (c[1] = d[1] /\ c[2] < d[2])

\* mutant: ties go to the lowest therapist index, then the lowest slot index
CostArgminColumnMajor(cm, nt) ==
    LET lowest == CostMin(cm, nt)
    IN  CHOOSE c \in CostCells(cm, nt) :
            /\ cm[c[1]][c[2]] = lowest
            /\ \A d \in CostCells(cm, nt) :
                  cm[d[1]][d[2]] = lowest
                      => (d = c \/ c[2] < d[2] \/ (c[2] = d[2] /\ c[1] < d[1]))

\* np.unravel_index(cost_matrix.argmin(), cost_matrix.shape): the first
\* minimum in row-major order
CostArgmin(cm, nt) ==
    LET lowest == CostMin(cm, nt)
    IN  CHOOSE c \in CostCells(cm, nt) :
            /\ cm[c[1]][c[2]] = lowest
            /\ \A d \in CostCells(cm, nt) :
                  cm[d[1]][d[2]] = lowest => (d = c \/ RowMajorBefore(c, d))

\* mutant: only the chosen cell is invalidated
InvalidateCellOnly(cm, slot_i, therapist_j, nt) ==
    [cm EXCEPT ![slot_i][therapist_j] = SENTINEL]

\* mutant: the chosen therapist's column is invalidated too (the variant of
\* debug_scheduler.py)
InvalidateRowAndColumn(cm, slot_i, therapist_j, nt) ==
    [i \in 1..Len(cm) |->
        [j \in 1..nt |-> IF i = slot_i \/ j = therapist_j THEN SENTINEL ELSE cm[i][j]]]

\* cost_matrix[slot_i, :] = 1000
InvalidateRow(cm, slot_i, therapist_j, nt) ==
    [cm EXCEPT ![slot_i] = [j \in 1..nt |-> SENTINEL]]

\* patient_avail[patient_idx, slot_idx] = 0
MarkUsed(avail, p, slot_idx) == [avail EXCEPT ![p][slot_idx] = 0]

\* mutant: the therapist's slot stays available
MarkBookedNot(avail, j, slot_idx) == avail

\* therapist_avail[therapist_j, slot_idx] = 0
MarkBooked(avail, j, slot_idx) == [avail EXCEPT ![j][slot_idx] = 0]

\* mutant: rounds up past an exact multiple
RequiredSlotsRoundedUp(minutes) == (minutes + SLOT_MINUTES) \div SLOT_MINUTES

\* required_minutes // 20
RequiredSlots(minutes) == minutes \div SLOT_MINUTES

\* mutant: the working matrix is the input object itself (no copy)
InputAliased(input, working) == working

\* matrices.patient_availability.copy(): the input object keeps its value
\* whatever is written to the working copy.
InputAfterWrite(input, working) == input

\* ------------------------------------------------- compatibility scorer
\* name_to_id.get(primary name): the therapist's index, 0 for None
PrimaryTherapist(rx) == rx.primary

\* mutant: without a resolvable primary therapist the gender of the first
\* therapist is taken
PrimaryGenderOfFirst(ths, rx) ==
    IF PrimaryTherapist(rx) \in 1..Len(ths)
    THEN ths[PrimaryTherapist(rx)].gender
    ELSE IF Len(ths) >= 1 THEN ths[1].gender ELSE "None"

\* lines 108-112: the gender of the resolvable primary therapist, else "None"
PrimaryGender(ths, rx) ==
    IF PrimaryTherapist(rx) \in 1..Len(ths)
    THEN ths[PrimaryTherapist(rx)].gender
    ELSE "None"

\* mutant: the exclusive-ward rule is missing
CompatibilityScoreNoExclusive(ths, rx, j) ==
    IF j = rx.primary
    THEN PRIMARY_SCORE
    ELSE BASE_SCORE
         + (IF ths[j].ward = rx.ward THEN SAME_WARD_BONUS ELSE 0)
         + (IF PrimaryGender(ths, rx) # "None" /\ ths[j].gender = PrimaryGender(ths, rx)
            THEN SAME_GENDER_BONUS ELSE 0)

\* lines 118-134: the score of therapist j for the patient of record rx
CompatibilityScore(ths, rx, j) ==
    IF j = PrimaryTherapist(rx)
    THEN PRIMARY_SCORE
    ELSE IF ths[j].exclusive /\ ths[j].ward # rx.ward
         THEN 0
         ELSE BASE_SCORE
              + (IF ths[j].ward = rx.ward THEN SAME_WARD_BONUS ELSE 0)
              + (IF PrimaryGender(ths, rx) # "None" /\ ths[j].gender = PrimaryGender(ths, rx)
                 THEN SAME_GENDER_BONUS ELSE 0)

\* _build_compatibility
BuildCompatibilityMatrix(ths, rxs) ==
    [i \in 1..Len(rxs) |-> [j \in 1..Len(ths) |-> CompatibilityScore(ths, rxs[i], j)]]

\* ---------------------------------------------------------------- validator
RECURSIVE PatientMinutes(_, _)
\* lines 134-136 and the .get(patient_id, 0) of line 140
PatientMinutes(asg, pid) ==
    IF asg = <<>> THEN 0
    ELSE (IF Head(asg).patient_id = pid THEN SLOT_MINUTES ELSE 0)
         + PatientMinutes(Tail(asg), pid)

RECURSIVE ShortfallErrorsInclusive(_, _, _)
\* mutant: minutes equal to the requirement count as a shortfall
ShortfallErrorsInclusive(asg, m, i) ==
    IF i > NumPatients(m) THEN <<>>
    ELSE (IF PatientMinutes(asg, m.patient_ids[i]) <= m.requirements[i]
          THEN <<[kind |-> "shortfall", patient_id |-> m.patient_ids[i],
                  required |-> m.requirements[i],
                  actual |-> PatientMinutes(asg, m.patient_ids[i])]>>
          ELSE <<>>)
         \o ShortfallErrorsInclusive(asg, m, i + 1)

RECURSIVE ShortfallErrors(_, _, _)
\* lines 138-142, from patient index i on
ShortfallErrors(asg, m, i) ==
    IF i > NumPatients(m) THEN <<>>
    ELSE (IF PatientMinutes(asg, m.patient_ids[i]) < m.requirements[i]
          THEN <<[kind |-> "shortfall", patient_id |-> m.patient_ids[i],
                  required |-> m.requirements[i],
                  actual |-> PatientMinutes(asg, m.patient_ids[i])]>>
          ELSE <<>>)
         \o ShortfallErrors(asg, m, i + 1)

RECURSIVE DoubleBookingNewestFirst(_, _)
\* mutant: each finding is put in front of the earlier ones
DoubleBookingNewestFirst(asg, seen) ==
    IF asg = <<>> THEN <<>>
    ELSE LET key == <<Head(asg).therapist_id, Head(asg).timeslot>>
         IN  DoubleBookingNewestFirst(Tail(asg), seen \cup {key})
             \o (IF key \in seen
                 THEN <<[kind |-> "double", therapist_id |-> key[1], timeslot |-> key[2]]>>
                 ELSE <<>>)

RECURSIVE DoubleBookingErrors(_, _)
\* lines 145-150: seen is the key set of therapist_slots
DoubleBookingErrors(asg, seen) ==
    IF asg = <<>> THEN <<>>
    ELSE LET key == <<Head(asg).therapist_id, Head(asg).timeslot>>
         IN  (IF key \in seen
              THEN <<[kind |-> "double", therapist_id |-> key[1], timeslot |-> key[2]]>>
              ELSE <<>>)
             \o DoubleBookingErrors(Tail(asg), seen \cup {key})

ValidationResult(errs) == [is_valid |-> Len(errs) = 0, errors |-> errs]

\* ScheduleValidator.validate
Validate(schedule, m) ==
    ValidationResult(ShortfallErrors(schedule.assignments, m, 1)
                     \o DoubleBookingErrors(schedule.assignments, {}))

NoValidation == [is_valid |-> FALSE, errors |-> <<"none">>]

\* -------------------------------------------------------------- time slots
\* a slot label "HH:MM-HH:MM" as its start and its end, each (hour, minute)
Timeslot(h1, m1, h2, m2) == [start |-> <<h1, m1>>, end |-> <<h2, m2>>]

\* generate_timeslots(): the literal list of time_utils.py
generate_timeslots ==
    <<Timeslot(9, 0, 9, 20), Timeslot(9, 20, 9, 40), Timeslot(9, 40, 10, 0),
      Timeslot(10, 0, 10, 20), Timeslot(10, 20, 10, 40), Timeslot(10, 40, 11, 0),
      Timeslot(11, 0, 11, 20), Timeslot(11, 20, 11, 40), Timeslot(11, 40, 12, 0),
      Timeslot(13, 0, 13, 20), Timeslot(13, 20, 13, 40), Timeslot(13, 40, 14, 0),
      Timeslot(14, 0, 14, 20), Timeslot(14, 20, 14, 40), Timeslot(14, 40, 15, 0),
      Timeslot(15, 0, 15, 20), Timeslot(15, 20, 15, 40), Timeslot(15, 40, 16, 0)>>

\* Python's order on (hour, minute) tuples
TimeLess(a, b) == a[1] < b[1] \/ (a[1] = b[1] /\ a[2] < b[2])

\* mutant: the end of the range is included
parse_unavailable_times_closed(times) ==
    IF times = <<>> THEN <<>>
    ELSE LET start == times[1]
             end == IF Len(times) >= 2 THEN times[2] ELSE <<start[1] + 1, start[2]>>
             Within(slot) ==
                 (start = slot.start \/ TimeLess(start, slot.start))
                 /\ (slot.start = end \/ TimeLess(slot.start, end))
         IN  SelectSeq(generate_timeslots, Within)

\* parse_unavailable_times on the HH:MM times the pattern finds in the cell
\* (none for an empty cell): two times are a range, one time is an hour block
parse_unavailable_times(times) ==
    IF times = <<>> THEN <<>>
    ELSE LET start == times[1]
             end == IF Len(times) >= 2 THEN times[2] ELSE <<start[1] + 1, start[2]>>
             Within(slot) ==
                 (start = slot.start \/ TimeLess(start, slot.start))
                 /\ TimeLess(slot.start, end)
         IN  SelectSeq(generate_timeslots, Within)

\* mutant: an unrecognized code counts as available
check_shift_availability_fail_open(shift_code, timeslot) ==
    IF shift_code = "" THEN FALSE
    ELSE IF shift_code = "O" THEN TRUE
    ELSE IF shift_code = "AN" THEN timeslot.start[1] >= 13
    ELSE IF shift_code = "PN" THEN timeslot.start[1] < 12
    ELSE TRUE

\* check_shift_availability: "O" stands for the circle mark, "" for an empty
\* cell
check_shift_availability(shift_code, timeslot) ==
    IF shift_code = "" THEN FALSE
    ELSE IF shift_code = "O" THEN TRUE
    ELSE IF shift_code = "AN" THEN timeslot.start[1] >= 13
    ELSE IF shift_code = "PN" THEN timeslot.start[1] < 12
    ELSE FALSE

\* tools.py list_available_timeslots: enumerate() counts from 0
list_available_timeslots ==
    LET slots == generate_timeslots
        infos == [i \in 1..Len(slots) |-> [index |-> i - 1, timeslot |-> slots[i]]]
        Morning(info) == info.index < MORNING_SPLIT
        Afternoon(info) == ~(info.index < MORNING_SPLIT)
    IN  [total_slots |-> Len(slots),
         morning_slots |-> SelectSeq(infos, Morning),
         afternoon_slots |-> SelectSeq(infos, Afternoon)]

\* ------------------------------------------------------------- preprocessor
\* DataNormalizer.WARD_MAP; the keys stand for the ward names of the
\* prescription file (3rd floor east, 3rd floor west, 3rd floor new, ...)
WARD_MAP ==
    [name \in {"3F-East", "3F-West", "3F-New", "4F-East", "4F-West",
               "5F-East", "5F-West"} |->
        CASE name = "3F-East" -> "3E"
          [] name = "3F-West" -> "3W"
          [] name = "3F-New" -> "3W"
          [] name = "4F-East" -> "4E"
          [] name = "4F-West" -> "4W"
          [] name = "5F-East" -> "5E"
          [] name = "5F-West" -> "5W"]

\* Series.map(WARD_MAP): a name without an entry becomes NaN, no error
MapWard(name) == IF name \in DOMAIN WARD_MAP THEN WARD_MAP[name] ELSE "NaN"

\* normalize_prescriptions
normalize_prescriptions(rows) ==
    [i \in 1..Len(rows) |-> [rows[i] EXCEPT !.ward = MapWard(@)]]

\* normalize_therapists: "maru" stands for the circle mark of the column
normalize_therapists(rows) ==
    [j \in 1..Len(rows) |-> [rows[j] EXCEPT !.exclusive = (@ = "maru")]]

\* a target date "YYYY-MM-DD" as (year, month, day); the day number is what
\* split('-')[-1].lstrip('0') keeps
DayOf(target_date) == target_date[3]

NoColumn == 0

\* mutant: the column of the day is taken to exist
DateColumnAssumed(shifts, target_date) == DayOf(target_date)

\* normalize_shifts, lines 32-41: the column of the day, None when missing
DateColumn(shifts, target_date) ==
    IF DayOf(target_date) \in shifts.columns THEN DayOf(target_date) ELSE NoColumn

\* normalize_shifts, lines 46-51: the availability code of each therapist
normalize_shifts(shifts, target_date) == shifts.codes

\* ---------------------------------------------------- constraints builder
\* _build_patient_availability: ones, then 0 in every slot of the bathing,
\* excretion and other unavailable times
BuildPatientAvailability(rxs) ==
    [i \in 1..Len(rxs) |->
        LET unavailable_slots ==
                parse_unavailable_times(rxs[i].bathing)
                \o parse_unavailable_times(rxs[i].excretion)
                \o parse_unavailable_times(rxs[i].other)
        IN  [s \in 1..Len(generate_timeslots) |->
                IF \E k \in 1..Len(unavailable_slots) :
                       unavailable_slots[k] = generate_timeslots[s]
                THEN 0 ELSE 1]]

\* the normalized shifts have no row with the therapist's name
NoShiftEntry == "NoEntry"

\* _build_therapist_availability: zeros, then 1 where the shift code allows;
\* a therapist without shift entry is skipped (lines 82-84)
BuildTherapistAvailability(ths, codes) ==
    [j \in 1..Len(ths) |->
        [s \in 1..Len(generate_timeslots) |->
            IF codes[j] = NoShiftEntry THEN 0
            ELSE IF check_shift_availability(codes[j], generate_timeslots[s])
                 THEN 1 ELSE 0]]

\* _build_requirements
BuildRequirements(rxs) ==
    [i \in 1..Len(rxs) |->
        IF rxs[i].category = "cerebrovascular"
        THEN REQ_CEREBROVASCULAR ELSE REQ_DEFAULT]

\* no matrices: nothing has been built or saved
NoMatrices ==
    [patient_availability |-> <<>>, therapist_availability |-> <<>>,
     compatibility |-> <<>>, requirements |-> <<>>, patient_ids |-> <<>>,
     therapist_ids |-> <<>>, timeslots |-> <<>>]

\* build_all_matrices
BuildAllMatrices(ths, rxs, codes) ==
    [patient_availability |-> BuildPatientAvailability(rxs),
     therapist_availability |-> BuildTherapistAvailability(ths, codes),
     compatibility |-> BuildCompatibilityMatrix(ths, rxs),
     requirements |-> BuildRequirements(rxs),
     patient_ids |-> SubSeq(PatientIds, 1, Len(rxs)),
     therapist_ids |-> SubSeq(TherapistIds, 1, Len(ths)),
     timeslots |-> generate_timeslots]

\* a normalized prescription record whose ward name had no entry in the
\* ward map
UnresolvedWard(rxs) == \E i \in 1..Len(rxs) : rxs[i].ward = "NaN"

\* ConstraintMatrixBuilder.build_matrices(therapists, prescriptions, shifts),
\* the method the pipeline and the tests call: MalformedConstraintInput when
\* a ward is unresolved, otherwise the four builders on the normalized
\* records it is handed
build_matrices(ths, rxs, codes) ==
    IF UnresolvedWard(rxs)
    THEN [raised |-> "MalformedConstraintInput", matrices |-> NoMatrices]
    ELSE [raised |-> "none", matrices |-> BuildAllMatrices(ths, rxs, codes)]

\* --------------------------------------------------------------- DataStore
NoDir == 0

\* the dates a schedule is asked for: one with a column in the shift file,
\* one without
TargetDates == {<<2025, 10, 4>>, <<2025, 10, 5>>}
ShiftColumns == {4}

RawFiles == {"therapist.csv", "prescription.csv", "shift.xlsx"}
NormalizedFiles ==
    {"normalized_therapists.csv", "normalized_prescriptions.csv",
     "normalized_shifts.csv"}
MatrixFiles ==
    {"patient_availability.npy", "therapist_availability.npy",
     "compatibility.npy", "requirements.npy", "matrices_metadata.json"}

\* DataStore.__init__ (no directory yet); made counts the directories that
\* mkdtemp has created so far, dirs are the directories that exist, files
\* and the two contents are those of the directory temp_dir
DataStore ==
    [temp_dir |-> NoDir, session_active |-> FALSE, made |-> 0, dirs |-> {},
     files |-> {}, matrices |-> NoMatrices,
     processed |-> [d \in TargetDates |-> NoSchedule]]

\* mutant: the directory is kept
CleanupKeepsDirectory(st) ==
    IF st.session_active /\ st.temp_dir # NoDir /\ st.temp_dir \in st.dirs
    THEN [st EXCEPT !.temp_dir = NoDir, !.session_active = FALSE]
    ELSE st

\* DataStore.cleanup
Cleanup(st) ==
    IF st.session_active /\ st.temp_dir # NoDir /\ st.temp_dir \in st.dirs
    THEN [st EXCEPT !.dirs = @ \ {st.temp_dir},
                    !.temp_dir = NoDir,
                    !.session_active = FALSE,
                    !.files = {},
                    !.matrices = NoMatrices,
                    !.processed = [d \in TargetDates |-> NoSchedule]]
    ELSE st

\* mutant: a directory is created whether or not the session is active
InitializeAlways(st) ==
    [st EXCEPT !.temp_dir = st.made + 1,
               !.made = st.made + 1,
               !.dirs = @ \cup {st.made + 1},
               !.files = {},
               !.matrices = NoMatrices,
               !.processed = [d \in TargetDates |-> NoSchedule],
               !.session_active = TRUE]

\* DataStore.initialize
Initialize(st) ==
    IF st.session_active /\ st.temp_dir # NoDir /\ st.temp_dir \in st.dirs
    THEN st
    ELSE LET c == IF st.temp_dir # NoDir THEN Cleanup(st) ELSE st
         IN  [c EXCEPT !.temp_dir = c.made + 1,
                       !.made = c.made + 1,
                       !.dirs = @ \cup {c.made + 1},
                       !.files = {},
                       !.matrices = NoMatrices,
                       !.processed = [d \in TargetDates |-> NoSchedule],
                       !.session_active = TRUE]

\* save_all_matrices: the four arrays and the metadata
SaveAllMatrices(st, m) ==
    [st EXCEPT !.files = @ \cup MatrixFiles, !.matrices = m]

\* mutant: the matrices are derived again from the normalized records
LoadRebuiltMatrices(st) ==
    IF prescriptions = <<>> THEN st.matrices
    ELSE BuildAllMatrices(therapists, prescriptions, raw.shifts.codes)

\* load_all_matrices
LoadAllMatrices(st) == st.matrices

\* save_schedule under the date of the schedule
SaveSchedule(st, date, schedule) ==
    [st EXCEPT !.processed[date] = schedule]

HasMatrices(st) == MatrixFiles \subseteq st.files

\* ------------------------------------------------------------ tool calls
NoTool == [name |-> "none", date |-> <<>>]
NoResponse == [tool |-> "none", error |-> "none", value |-> <<>>]

Response(name, err, val) == [tool |-> name, error |-> err, value |-> val]

NoRaw ==
    [therapists |-> <<>>, prescriptions |-> <<>>,
     shifts |-> [columns |-> {}, codes |-> <<>>]]

\* ------------------------------------------------------------------ inputs
\* The shapes (patients, therapists, slots) within the bound: at least one
\* patient and one slot, possibly no therapist.
Shapes ==
    {sh \in (1..MaxShape) \X (0..MaxShape) \X (1..MaxShape) :
        sh[1] + sh[2] + sh[3] <= MaxShape}

Ones(n, k) == [i \in 1..n |-> [s \in 1..k |-> 1]]

\* Every ConstraintMatrices of a shape within the bounds.
InitMatrices ==
    \E sh \in Shapes :
      \E pa \in [1..sh[1] -> [1..sh[3] -> {0, 1}]],
         ta \in [1..sh[2] -> [1..sh[3] -> {0, 1}]],
         co \in [1..sh[1] -> [1..sh[2] -> CompatValues]],
         rq \in [1..sh[1] -> ReqValues] :
        matrices = ConstraintMatrices(sh[1], sh[2], sh[3], pa, ta, co, rq)

\* Scenario A of the specification: one patient, one therapist, both free in
\* all 18 slots, compatibility 100, 120 minutes required.
ScenarioA ==
    ConstraintMatrices(1, 1, NUM_TIMESLOTS, Ones(1, NUM_TIMESLOTS),
                       Ones(1, NUM_TIMESLOTS), <<<<PRIMARY_SCORE>>>>,
                       <<SCENARIO_A_MINUTES>>)

InitRun ==
    /\ patient_avail = <<>>
    /\ therapist_avail = <<>>
    /\ patient_order = <<>>
    /\ pos = 0
    /\ available_slots = <<>>
    /\ cost_matrix = <<>>
    /\ patient_assignments = <<>>
    /\ assigned_slots = 0
    /\ assignments = <<>>
    /\ unscheduled = <<>>
    /\ previous = NoSchedule
    /\ validation = NoValidation

\* the entrypoint's module-level dict before any request
NoSessions == [s \in {} |-> DataStore]

\* no invoke() call is in progress
NoRequest == [session_id |-> "", registered |-> FALSE]

\* data/interim before any command has run
NoInterim ==
    [files |-> {}, matrices |-> NoMatrices, schedule |-> NoSchedule, date |-> <<>>]

\* ------------------------------------------------------------------ state
\* the store and the tools before anything has used them
InitEnv ==
    /\ store = DataStore
    /\ contexts = <<>>
    /\ raw = NoRaw
    /\ session_datastores = NoSessions
    /\ request = NoRequest
    /\ interim = NoInterim
    /\ tool = NoTool
    /\ response = NoResponse

Init ==
    /\ InitMatrices \/ matrices = ScenarioA
    /\ argsort \in ArgsortDesc(matrices.requirements, NumPatients(matrices))
    /\ InitEnv
    /\ pc = "idle"
    /\ result = NoSchedule
    /\ therapists = <<>>
    /\ prescriptions = <<>>
    /\ InitRun

patient_idx == patient_order[pos]
required_slots == RequiredSlots(matrices.requirements[patient_idx])

\* the locals of _assign_patient once the call has ended
LeavePatient ==
    /\ pos' = pos + 1
    /\ pc' = "patient"
    /\ available_slots' = <<>>
    /\ cost_matrix' = <<>>
    /\ patient_assignments' = <<>>
    /\ assigned_slots' = 0

\* schedule(m), lines 16-24: empty lists, working copies, patient order
ScheduleBeginOn(m) ==
    /\ matrices' = m
    /\ previous' = result
    /\ result' = NoSchedule
    /\ validation' = NoValidation
    /\ assignments' = <<>>
    /\ unscheduled' = <<>>
    /\ patient_avail' = m.patient_availability
    /\ therapist_avail' = m.therapist_availability
    /\ argsort \in ArgsortDesc(m.requirements, NumPatients(m))
    /\ patient_order' = argsort
    /\ pos' = 1
    /\ pc' = "patient"
    /\ UNCHANGED <<available_slots, cost_matrix, patient_assignments,
                   assigned_slots, argsort>>

\* schedule() called directly on the matrices at hand
ScheduleBegin ==
    /\ ScheduleBeginOn(matrices)
    /\ UNCHANGED <<therapists, prescriptions, store, contexts, raw, interim, session_datastores, request, tool, response>>

\* the first call of schedule() on the matrices
ScheduleCall ==
    /\ pc = "idle"
    /\ ScheduleBegin

\* a further call of schedule() on the same matrices object
ScheduleAgain ==
    /\ pc \in {"done", "validated"}
    /\ ScheduleBegin

\* mutant: the patient's remaining slots are cleared before the error
AssignPatientTooFewSlotsClearsRow ==
    /\ pc = "patient"
    /\ pos <= Len(patient_order)
    /\ LET avs == WhereOne(patient_avail[patient_idx], NumTimeslots(matrices))
       IN  Len(avs) < required_slots
    /\ unscheduled' = Append(unscheduled, matrices.patient_ids[patient_idx])
    /\ patient_avail' = [patient_avail EXCEPT ![patient_idx] =
                            [s \in 1..NumTimeslots(matrices) |-> 0]]
    /\ LeavePatient
    /\ UNCHANGED <<matrices, therapist_avail, patient_order,
                   assignments, result, previous, validation, therapists,
                   prescriptions, env>>

\* _assign_patient, lines 61-67, raising InfeasibleScheduleError, caught by
\* schedule() at lines 40-41
AssignPatientTooFewSlots ==
    /\ pc = "patient"
    /\ pos <= Len(patient_order)
    /\ LET avs == WhereOne(patient_avail[patient_idx], NumTimeslots(matrices))
       IN  Len(avs) < required_slots
    /\ unscheduled' = Append(unscheduled, matrices.patient_ids[patient_idx])
    /\ LeavePatient
    /\ UNCHANGED <<matrices, patient_avail, therapist_avail, patient_order,
                   assignments, result, previous, validation, therapists,
                   prescriptions, env>>

\* _assign_patient, lines 61-90: available slots and cost matrix
AssignPatientBuildCost ==
    /\ pc = "patient"
    /\ pos <= Len(patient_order)
    /\ LET avs == WhereOne(patient_avail[patient_idx], NumTimeslots(matrices))
       IN  /\ ~(Len(avs) < required_slots)
           /\ available_slots' = avs
           /\ cost_matrix' = BuildCostMatrix(matrices, therapist_avail, patient_idx, avs)
    /\ patient_assignments' = <<>>
    /\ assigned_slots' = 0
    /\ pc' = "loop"
    /\ UNCHANGED <<matrices, patient_avail, therapist_avail, patient_order,
                   pos, assignments, unscheduled, result, previous, validation,
                   therapists, prescriptions, env>>

CostIsEmpty == CostCells(cost_matrix, NumTherapists(matrices)) = {}

\* one iteration of the greedy loop, lines 93-121, that assigns a slot
LoopAssign ==
    /\ pc = "loop"
    /\ assigned_slots < required_slots
    /\ ~CostIsEmpty
    /\ CostMin(cost_matrix, NumTherapists(matrices)) < SENTINEL
    /\ LET c == CostArgmin(cost_matrix, NumTherapists(matrices))
           slot_i == c[1]
           therapist_j == c[2]
           slot_idx == available_slots[slot_i]
       IN  /\ patient_assignments' =
                 Append(patient_assignments,
                        Assignment(matrices.patient_ids[patient_idx],
                                   matrices.therapist_ids[therapist_j],
                                   matrices.timeslots[slot_idx]))
           /\ patient_avail' = MarkUsed(patient_avail, patient_idx, slot_idx)
           /\ therapist_avail' = MarkBooked(therapist_avail, therapist_j, slot_idx)
           /\ cost_matrix' = InvalidateRow(cost_matrix, slot_i, therapist_j,
                                           NumTherapists(matrices))
    /\ assigned_slots' = assigned_slots + 1
    /\ matrices' = [matrices EXCEPT
                      !.patient_availability = InputAfterWrite(@, patient_avail'),
                      !.therapist_availability = InputAfterWrite(@, therapist_avail')]
    /\ UNCHANGED <<pc, patient_order, pos, available_slots, assignments,
                   unscheduled, result, previous, validation, therapists,
                   prescriptions, env>>

\* the loop finds no cell below the sentinel, lines 94-98: the error leaves
\* _assign_patient and with it the local list; schedule() records the patient
LoopInfeasible ==
    /\ pc = "loop"
    /\ assigned_slots < required_slots
    /\ ~CostIsEmpty
    /\ CostMin(cost_matrix, NumTherapists(matrices)) >= SENTINEL
    /\ unscheduled' = Append(unscheduled, matrices.patient_ids[patient_idx])
    /\ LeavePatient
    /\ UNCHANGED <<matrices, patient_avail, therapist_avail, patient_order,
                   assignments, result, previous, validation, therapists,
                   prescriptions, env>>

\* cost_matrix.min() of a matrix without cells (no therapist column) raises
\* numpy's ValueError, which schedule() does not catch
LoopMinOfEmpty ==
    /\ pc = "loop"
    /\ assigned_slots < required_slots
    /\ CostIsEmpty
    /\ pc' = "error"
    /\ UNCHANGED <<matrices, patient_avail, therapist_avail, patient_order,
                   pos, available_slots, cost_matrix, patient_assignments,
                   assigned_slots, assignments, unscheduled, result, previous,
                   validation, therapists, prescriptions, env>>

\* the loop condition fails, line 123 returns, line 39 extends
LoopReturn ==
    /\ pc = "loop"
    /\ ~(assigned_slots < required_slots)
    /\ assignments' = assignments \o patient_assignments
    /\ LeavePatient
    /\ UNCHANGED <<matrices, patient_avail, therapist_avail, patient_order,
                   unscheduled, result, previous, validation, therapists,
                   prescriptions, env>>

\* schedule(), lines 43-47
ScheduleReturn ==
    /\ pc = "patient"
    /\ pos > Len(patient_order)
    /\ result' = Schedule(assignments, unscheduled)
    /\ pc' = "done"
    /\ UNCHANGED <<matrices, patient_avail, therapist_avail, patient_order,
                   pos, available_slots, cost_matrix, patient_assignments,
                   assigned_slots, assignments, unscheduled, previous,
                   validation, therapists, prescriptions, env>>

\* ScheduleValidator.validate on the schedule at hand and the matrices
ValidateSchedule ==
    /\ pc = "done"
    /\ validation' = Validate(result, matrices)
    /\ pc' = "validated"
    /\ UNCHANGED <<matrices, patient_avail, therapist_avail, patient_order,
                   pos, available_slots, cost_matrix, patient_assignments,
                   assigned_slots, assignments, unscheduled, result, previous,
                   therapists, prescriptions, env>>

\* ConstraintMatrixBuilder._build_compatibility on the records
BuildCompatibility ==
    /\ pc = "build"
    /\ matrices' = [matrices EXCEPT
                      !.compatibility = BuildCompatibilityMatrix(therapists, prescriptions)]
    /\ pc' = "idle"
    /\ UNCHANGED <<patient_avail, therapist_avail, patient_order, pos,
                   available_slots, cost_matrix, patient_assignments,
                   assigned_slots, assignments, unscheduled, result, previous,
                   validation, therapists, prescriptions, env>>

Schedule_Steps ==
    \/ AssignPatientTooFewSlots
    \/ AssignPatientBuildCost
    \/ LoopAssign
    \/ LoopInfeasible
    \/ LoopMinOfEmpty
    \/ LoopReturn
    \/ ScheduleReturn

\* ------------------------------------------------------- specifications
\* one call of schedule() on every input
Next ==
    \/ ScheduleCall
    \/ Schedule_Steps

Spec == Init /\ [][Next]_vars

\* repeated calls of schedule() on the same matrices object
NextRepeat ==
    \/ ScheduleCall
    \/ Schedule_Steps
    \/ ScheduleAgain

SpecRepeat == Init /\ [][NextRepeat]_vars

\* one call of schedule(), then validate() on what it returned
NextCheck ==
    \/ ScheduleCall
    \/ Schedule_Steps
    \/ ValidateSchedule

SpecCheck == Init /\ [][NextCheck]_vars

\* one call of schedule() that is not left unfinished: the interpreter goes
\* on executing the call as long as it has a next statement
SpecLive == Init /\ [][Next]_vars /\ WF_vars(Next)

\* records -> compatibility matrix -> one call of schedule(); every patient
\* and therapist is free in every slot and all patients require the same
TherapistRecords == [ward : Wards, exclusive : BOOLEAN, gender : Genders]
PrescriptionRecords(nt) == [ward : Wards, primary : 0..nt]

InitBuild ==
    /\ \E sh \in Shapes :
         \E ths \in [1..sh[2] -> TherapistRecords],
            rxs \in [1..sh[1] -> PrescriptionRecords(sh[2])],
            r \in ReqValues :
           /\ therapists = ths
           /\ prescriptions = rxs
           /\ matrices = ConstraintMatrices(sh[1], sh[2], sh[3],
                             Ones(sh[1], sh[3]), Ones(sh[2], sh[3]),
                             [i \in 1..sh[1] |-> [j \in 1..sh[2] |-> 0]],
                             [i \in 1..sh[1] |-> r])
    /\ argsort = StableOrder(matrices.requirements, NumPatients(matrices))
    /\ InitEnv
    /\ pc = "build"
    /\ result = NoSchedule
    /\ InitRun

NextBuild ==
    \/ BuildCompatibility
    \/ ScheduleCall
    \/ Schedule_Steps

SpecBuild == InitBuild /\ [][NextBuild]_vars

\* validate() on any schedule over the ids of the matrices and one foreign
\* patient id, as an external edit can produce
UnknownPatientId == "9999"

AssignmentsOver(m) ==
    {Assignment(pid, tid, ts) :
        pid \in {m.patient_ids[i] : i \in 1..NumPatients(m)} \cup {UnknownPatientId},
        tid \in {m.therapist_ids[j] : j \in 1..NumTherapists(m)},
        ts \in {m.timeslots[k] : k \in 1..NumTimeslots(m)}}

InitValidate ==
    /\ \E sh \in {x \in Shapes :
                        x[2] >= 1 /\ x[1] + x[2] + x[3] <= MaxCheckedShape} :
         \E rq \in [1..sh[1] -> ReqValues] :
           matrices = ConstraintMatrices(sh[1], sh[2], sh[3],
                          Ones(sh[1], sh[3]), Ones(sh[2], sh[3]),
                          [i \in 1..sh[1] |-> [j \in 1..sh[2] |-> PRIMARY_SCORE]],
                          rq)
    /\ \E n \in 0..MaxAssignments :
         \E asg \in [1..n -> AssignmentsOver(matrices)] :
           result = Schedule(asg, <<>>)
    /\ argsort = StableOrder(matrices.requirements, NumPatients(matrices))
    /\ InitEnv
    /\ pc = "done"
    /\ therapists = <<>>
    /\ prescriptions = <<>>
    /\ InitRun

NextValidate == ValidateSchedule

SpecValidate == InitValidate /\ [][NextValidate]_vars

\* ------------------------------------------------- DataStore.session()
\* the state of the scheduler core
core == <<matrices, pc, patient_avail, therapist_avail, patient_order, pos,
          available_slots, cost_matrix, patient_assignments, assigned_slots,
          assignments, unscheduled, result, previous, validation, therapists,
          prescriptions>>

\* no exception is on its way out of a with-body or a tool
Calm == response.error = "none"

\* `with store.session()`: line 52 reads the flag, line 54 initializes and
\* yields the directory to the body
SessionEnter ==
    /\ Len(contexts) < MaxDepth
    /\ Calm \/ contexts = <<>>
    /\ store.session_active \/ store.made < MaxDirs
    /\ store' = Initialize(store)
    /\ contexts' = Append(contexts, [was_active |-> store.session_active,
                                     dir |-> Initialize(store).temp_dir])
    /\ response' = Response("session", "none", <<>>)
    /\ UNCHANGED <<core, argsort, raw, interim, session_datastores, request, tool>>

\* lines 55-57, the finally clause of the innermost open context
LeaveContext ==
    /\ contexts # <<>>
    /\ contexts' = SubSeq(contexts, 1, Len(contexts) - 1)
    /\ store' = IF ~contexts[Len(contexts)].was_active THEN Cleanup(store) ELSE store
    /\ UNCHANGED <<core, argsort, raw, interim, session_datastores, request, tool>>

\* the body of the innermost context ends normally
SessionExit ==
    /\ Calm
    /\ LeaveContext
    /\ UNCHANGED response

\* the body of the innermost context raises, or lets an exception pass that
\* an inner context has let pass
SessionExitByException ==
    /\ LeaveContext
    /\ response' = Response("session", "BodyError", <<>>)

\* the body of an enclosing context catches the exception
BodyCatches ==
    /\ contexts # <<>>
    /\ ~Calm
    /\ response' = Response("session", "none", <<>>)
    /\ UNCHANGED <<core, argsort, store, contexts, raw, interim, session_datastores, request, tool>>

\* copy_input(source_path, name), lines 60-72; source_exists tells whether
\* the file at source_path is there
CopyInput(name, source_exists) ==
    /\ Calm \/ contexts = <<>>
    /\ IF store.temp_dir = NoDir
       THEN /\ response' = Response("copy_input", "RuntimeError", <<>>)
            /\ UNCHANGED store
       ELSE IF ~source_exists
       THEN /\ response' = Response("copy_input", "FileNotFoundError", <<>>)
            /\ UNCHANGED store
       ELSE /\ response' = Response("copy_input", "none", <<>>)
            /\ store' = [store EXCEPT !.files = @ \cup {name}]
    /\ UNCHANGED <<core, argsort, contexts, raw, interim, session_datastores, request, tool>>

CopyFile ==
    \E name \in RawFiles, source_exists \in BOOLEAN : CopyInput(name, source_exists)

\* copy_input without target_name: the file keeps the name of its source
OtherInput == "notes.csv"

CopyOtherInput == \E source_exists \in BOOLEAN : CopyInput(OtherInput, source_exists)

\* save_error_state(error_data): _save_interim_json divides _temp_dir by a
\* name, a TypeError when there is no directory
SaveErrorState ==
    /\ Calm \/ contexts = <<>>
    /\ IF store.temp_dir = NoDir
       THEN /\ response' = Response("save_error_state", "TypeError", <<>>)
            /\ UNCHANGED store
       ELSE /\ response' = Response("save_error_state", "none", <<>>)
            /\ store' = [store EXCEPT !.files = @ \cup {"error_state.json"}]
    /\ UNCHANGED <<core, argsort, contexts, raw, interim, session_datastores, request, tool>>

\* ----------------------------------------------------------- agent tools
\* the locals of schedule() once the call has ended
ForgetRun ==
    /\ patient_avail' = <<>>
    /\ therapist_avail' = <<>>
    /\ patient_order' = <<>>
    /\ pos' = 0
    /\ available_slots' = <<>>
    /\ cost_matrix' = <<>>
    /\ patient_assignments' = <<>>
    /\ assigned_slots' = 0
    /\ assignments' = <<>>
    /\ unscheduled' = <<>>
    /\ previous' = NoSchedule
    /\ validation' = NoValidation

Idle == pc = "idle" /\ tool = NoTool

\* preprocess_therapists and preprocess_prescriptions have saved their files
AfterPreprocessRecords(st) ==
    [st EXCEPT !.files = @ \cup {"normalized_therapists.csv",
                                 "normalized_prescriptions.csv"}]

\* preprocess_all has saved its three files
AfterPreprocessAll(st) ==
    [AfterPreprocessRecords(st) EXCEPT !.files = @ \cup {"normalized_shifts.csv"}]

\* create_schedule(target_date) when the shift file has no column of the
\* day: preprocess_all saves the two record files, normalize_shifts raises
\* ValueError (preprocessor.py line 44), nothing catches it
CreateScheduleNoDateColumn(target_date) ==
    /\ Idle
    /\ RawFiles \subseteq store.files
    /\ DateColumn(raw.shifts, target_date) = NoColumn
    /\ store' = AfterPreprocessRecords(store)
    /\ response' = Response("create_schedule", "ValueError", <<>>)
    /\ UNCHANGED <<core, argsort, contexts, raw, interim, session_datastores, request, tool>>

\* create_schedule(target_date), full_pipeline(load=False): preprocess_all,
\* build_all_constraints, then schedule() up to the scheduler's loop; when
\* build_matrices raises, the three normalized files are saved and nothing
\* else is
CreateScheduleBuild(target_date) ==
    /\ Idle
    /\ RawFiles \subseteq store.files
    /\ DateColumn(raw.shifts, target_date) # NoColumn
    /\ LET ths == normalize_therapists(raw.therapists)
           rxs == normalize_prescriptions(raw.prescriptions)
           codes == normalize_shifts(raw.shifts, target_date)
           built == build_matrices(ths, rxs, codes)
           saved == SaveAllMatrices(AfterPreprocessAll(store), built.matrices)
       IN  IF built.raised # "none"
           THEN /\ store' = AfterPreprocessAll(store)
                /\ response' = Response("create_schedule", built.raised, <<>>)
                /\ UNCHANGED <<core, argsort, tool>>
           ELSE /\ therapists' = ths
                /\ prescriptions' = rxs
                /\ store' = saved
                /\ ScheduleBeginOn(LoadAllMatrices(saved))
                /\ tool' = [name |-> "create_schedule", date |-> target_date]
                /\ response' = NoResponse
    /\ UNCHANGED <<contexts, raw, interim, session_datastores, request>>

\* create_schedule(target_date) with the ConstraintMatrixBuilder of
\* constraints_builder.py, which has no build_matrices: preprocess_all saves
\* its three files, pipeline.py line 66 raises AttributeError
CreateScheduleNoBuilder(target_date) ==
    /\ Idle
    /\ RawFiles \subseteq store.files
    /\ DateColumn(raw.shifts, target_date) # NoColumn
    /\ store' = AfterPreprocessAll(store)
    /\ response' = Response("create_schedule", "AttributeError", <<>>)
    /\ UNCHANGED <<core, argsort, contexts, raw, interim, session_datastores, request, tool>>

CreateSchedule ==
    \E target_date \in TargetDates :
        \/ CreateScheduleNoDateColumn(target_date)
        \/ CreateScheduleBuild(target_date)
        \/ CreateScheduleNoBuilder(target_date)

\* update_schedule(target_date), full_pipeline(load=True): schedule() on
\* the stored matrices
UpdateSchedule(target_date) ==
    /\ Idle
    /\ HasMatrices(store)
    /\ ScheduleBeginOn(LoadAllMatrices(store))
    /\ tool' = [name |-> "update_schedule", date |-> target_date]
    /\ response' = NoResponse
    /\ UNCHANGED <<therapists, prescriptions, store, contexts, raw, interim, session_datastores, request>>

\* a tool that loads the matrices before any has been saved
ToolWithoutMatrices(name) ==
    /\ Idle
    /\ store.temp_dir # NoDir
    /\ ~HasMatrices(store)
    /\ response' = Response(name, "FileNotFoundError", <<>>)
    /\ UNCHANGED <<core, argsort, store, contexts, raw, interim, session_datastores, request, tool>>

\* index of an element in a list, list.index
IndexOf(seq, x) == CHOOSE k \in 1..Len(seq) : seq[k] = x /\ \A h \in 1..(k - 1) : seq[h] # x

\* mutant: the listed slots are set for every patient
SetSlotsEveryPatient(m, patient_idx0, timeslot_list, new_value) ==
    [m EXCEPT !.patient_availability =
        [i \in 1..Len(m.patient_ids) |->
            [s \in 1..Len(m.timeslots) |->
                IF m.timeslots[s] \in Range(timeslot_list)
                THEN new_value ELSE m.patient_availability[i][s]]]]

RECURSIVE SetSlots(_, _, _, _)
\* tools.py lines 409-425 on the valid labels of timeslot_list
SetSlots(m, patient_idx0, timeslot_list, new_value) ==
    IF timeslot_list = <<>> THEN m
    ELSE SetSlots(
             [m EXCEPT !.patient_availability[patient_idx0]
                           [IndexOf(m.timeslots, Head(timeslot_list))] = new_value],
             patient_idx0, Tail(timeslot_list), new_value)

\* tools.py line 427
StoreAfterUpdate(st, m) == SaveAllMatrices(st, m)

\* update_patient_availability(patient_id, timeslots, available)
UpdatePatientAvailability(patient_id, timeslot_list, available) ==
    /\ Idle
    /\ HasMatrices(store)
    /\ LET m == LoadAllMatrices(store)
           known == \E i \in 1..Len(m.patient_ids) : m.patient_ids[i] = patient_id
           valid == \A k \in 1..Len(timeslot_list) :
                        \E s \in 1..Len(m.timeslots) : m.timeslots[s] = timeslot_list[k]
       IN  IF ~known
           THEN /\ response' = Response("update_patient_availability",
                                        "PatientNotFoundError", <<>>)
                /\ UNCHANGED store
           ELSE IF ~valid
           THEN /\ response' = Response("update_patient_availability",
                                        "InvalidTimeslotError", <<>>)
                /\ UNCHANGED store
           ELSE /\ store' = StoreAfterUpdate(store,
                                SetSlots(m, IndexOf(m.patient_ids, patient_id),
                                         timeslot_list, IF available THEN 1 ELSE 0))
                /\ response' = Response("update_patient_availability", "none",
                                        [patient_id |-> patient_id,
                                         total_changes |-> Len(timeslot_list),
                                         timeslots |-> timeslot_list,
                                         status |-> IF available THEN "available"
                                                    ELSE "unavailable"])
    /\ UNCHANGED <<core, argsort, contexts, raw, interim, session_datastores, request, tool>>

\* the arguments the agent passes: a patient of the matrices or a foreign
\* id, one label or two, possibly one that is no slot of the day
EditTimeslots == {generate_timeslots[1]}
InvalidTimeslot == Timeslot(12, 0, 12, 20)
TimeslotLists ==
    {<<t>> : t \in EditTimeslots}
    \cup {<<t, InvalidTimeslot>> : t \in EditTimeslots}

UpdateAvailability ==
    \E patient_id \in Range(store.matrices.patient_ids) \cup {UnknownPatientId},
       timeslot_list \in TimeslotLists, available \in BOOLEAN :
        UpdatePatientAvailability(patient_id, timeslot_list, available)

\* the date update_schedule is asked for
UpdateDates == {d \in TargetDates : DayOf(d) \in ShiftColumns}

Reschedule == \E target_date \in UpdateDates : UpdateSchedule(target_date)

TooEarly ==
    \E name \in {"update_schedule", "update_patient_availability"} :
        ToolWithoutMatrices(name)

\* pipeline.py lines 72-74 and tools.py lines 133-140 / 158-165: the schedule
\* is saved and the counts go to the caller
ToolScheduleSaved ==
    /\ pc = "done"
    /\ tool # NoTool
    /\ store' = SaveSchedule(store, tool.date, result)
    /\ response' = Response(tool.name, "none",
                       [date |-> tool.date,
                        total_assignments |-> Len(result.assignments),
                        unscheduled_patients |-> Len(result.unscheduled_patients),
                        unscheduled_patient_ids |-> result.unscheduled_patients])
    /\ tool' = NoTool
    /\ pc' = "idle"
    /\ ForgetRun
    /\ UNCHANGED <<matrices, result, therapists, prescriptions, argsort,
                   contexts, raw, interim, session_datastores, request>>

\* the error of the scheduler passes through full_pipeline and the tool
ToolScheduleRaises ==
    /\ pc = "error"
    /\ tool # NoTool
    /\ response' = Response(tool.name, "ValueError", <<>>)
    /\ tool' = NoTool
    /\ pc' = "idle"
    /\ ForgetRun
    /\ UNCHANGED <<matrices, result, therapists, prescriptions, argsort,
                   store, contexts, raw, interim, session_datastores, request>>

\* list_available_timeslots()
ListAvailableTimeslots ==
    /\ Idle
    /\ response' = Response("list_available_timeslots", "none",
                            list_available_timeslots)
    /\ UNCHANGED <<core, argsort, store, contexts, raw, interim, session_datastores, request, tool>>

\* nested `with store.session()` blocks on a fresh DataStore, with files
\* copied in and bodies that end normally or by an exception
InitSession ==
    /\ InitEnv
    /\ matrices = NoMatrices
    /\ argsort = <<>>
    /\ pc = "idle"
    /\ result = NoSchedule
    /\ therapists = <<>>
    /\ prescriptions = <<>>
    /\ InitRun

NextSession ==
    \/ SessionEnter
    \/ SessionExit
    \/ SessionExitByException
    \/ BodyCatches
    \/ CopyFile
    \/ CopyOtherInput

SpecSession == InitSession /\ [][NextSession]_vars

\* a direct call of initialize(), as the deployed entrypoint makes it
InitializeCall ==
    /\ Calm \/ contexts = <<>>
    /\ store.session_active \/ store.made < MaxDirs
    /\ store' = Initialize(store)
    /\ response' = Response("initialize", "none", Initialize(store).temp_dir)
    /\ UNCHANGED <<core, argsort, contexts, raw, interim, session_datastores, request, tool>>

\* a direct call of cleanup()
CleanupCall ==
    /\ Calm \/ contexts = <<>>
    /\ store' = Cleanup(store)
    /\ response' = Response("cleanup", "none", <<>>)
    /\ UNCHANGED <<core, argsort, contexts, raw, interim, session_datastores, request, tool>>

\* any sequence of initialize(), cleanup(), session() contexts and
\* copy_input on one DataStore
NextStore ==
    \/ InitializeCall
    \/ CleanupCall
    \/ SessionEnter
    \/ SessionExit
    \/ SessionExitByException
    \/ BodyCatches
    \/ CopyFile
    \/ CopyOtherInput
    \/ SaveErrorState

SpecStore == InitSession /\ [][NextStore]_vars

\* ----------------------------------------------------- deployed entrypoint
\* the session ids BedrockAgentCoreContext hands to invoke()
SessionIds == {"s1", "s2"}

NoSessionIdResult == <<"Error: No session ID provided">>

\* the three uploads in the order invoke() copies them
UploadOrder == <<"therapist.csv", "prescription.csv", "shift.xlsx">>

\* DataStore() as invoke() constructs it; `made` carries on the count of
\* the directories mkdtemp has handed out, so that every directory is new
NewDataStore == [DataStore EXCEPT !.made = store.made]

\* copy_<file>_from_bytes(payload) for the first k files of the upload
RECURSIVE CopyFromBytes(_, _)
CopyFromBytes(st, k) ==
    IF k = 0 THEN st
    ELSE [CopyFromBytes(st, k - 1) EXCEPT !.files = @ \cup {UploadOrder[k]}]

\* session_datastores[session_id] = data_store
Register(d, sid, st) ==
    [s \in DOMAIN d \cup {sid} |-> IF s = sid THEN st ELSE d[s]]

\* lines 28-31: the old store of the session, if any, is cleaned up in place
CleanOld(d, sid) ==
    IF sid \in DOMAIN d THEN [d EXCEPT ![sid] = Cleanup(d[sid])] ELSE d

\* the store the dict holds for `sid`: while the call in progress works on
\* that very object, its state is the one of `store`
Bound(sid) == request.registered /\ request.session_id = sid

Registered(sid) == IF Bound(sid) THEN store ELSE session_datastores[sid]

\* the object of the dict becomes the data_store of the call
Rebind(st) == [st EXCEPT !.made = store.made]

\* a request without a session id
InvokeNoSession ==
    /\ request = NoRequest
    /\ response' = Response("invoke", "none", NoSessionIdResult)
    /\ UNCHANGED <<core, argsort, store, contexts, raw, interim, tool, session_datastores,
                   request>>

\* a request of session `sid` whose payload holds therapist_csv, up to the
\* call of the agent; copied is the number of copy calls that return before
\* one raises (3: none raises)
InvokeUpload(sid, copied) ==
    /\ request = NoRequest
    /\ store.made < MaxDirs
    /\ store' = CopyFromBytes(Initialize(NewDataStore), copied)
    /\ IF copied = Len(UploadOrder)
       THEN /\ session_datastores' =
                 Register(CleanOld(session_datastores, sid), sid, store')
            /\ request' = [session_id |-> sid, registered |-> TRUE]
            /\ response' = NoResponse
       ELSE /\ session_datastores' = CleanOld(session_datastores, sid)
            /\ request' = NoRequest
            /\ response' = Response("invoke", "UploadError", <<sid>>)
    /\ UNCHANGED <<core, argsort, contexts, raw, interim, tool>>

\* a request without files of a session that has a store, up to the call of
\* the agent: the agent's tools work on the registered store
InvokeReuse(sid) ==
    /\ request = NoRequest
    /\ sid \in DOMAIN session_datastores
    /\ store' = Rebind(session_datastores[sid])
    /\ request' = [session_id |-> sid, registered |-> TRUE]
    /\ response' = NoResponse
    /\ UNCHANGED <<core, argsort, contexts, raw, interim, tool, session_datastores>>

\* a request without files of a session that has no store, up to the call
\* of the agent: the agent gets a DataStore that is neither initialized nor
\* registered
InvokeNoStore(sid) ==
    /\ request = NoRequest
    /\ sid \notin DOMAIN session_datastores
    /\ store' = NewDataStore
    /\ request' = [session_id |-> sid, registered |-> FALSE]
    /\ response' = NoResponse
    /\ UNCHANGED <<core, argsort, contexts, raw, interim, tool, session_datastores>>

\* one request of session `sid` begins
InvokeFor(sid) ==
    \/ \E copied \in 0..Len(UploadOrder) : InvokeUpload(sid, copied)
    \/ InvokeReuse(sid)
    \/ InvokeNoStore(sid)

Invoke == \E sid \in SessionIds : InvokeFor(sid)

\* a tool that reads or writes the store when the store has no directory:
\* _temp_dir / "raw" and _temp_dir / "interim" are a TypeError on None
ToolOnClosedStore ==
    /\ request # NoRequest
    /\ Idle
    /\ store.temp_dir = NoDir
    /\ \E name \in {"create_schedule", "update_schedule",
                     "update_patient_availability"} :
          response' = Response(name, "TypeError", <<>>)
    /\ UNCHANGED <<core, argsort, store, contexts, raw, interim, tool, session_datastores,
                   request>>

\* the agent calls a tool bound to the data_store of the request
AgentCallsTool ==
    /\ request # NoRequest
    /\ \/ CreateSchedule
       \/ Reschedule
       \/ UpdateAvailability
       \/ TooEarly
       \/ ListAvailableTimeslots
       \/ Schedule_Steps
       \/ ToolScheduleSaved
       \/ ToolScheduleRaises

\* the agent is done, or raises: invoke() ends; the dict holds the object
\* the tools have worked on
InvokeReturn ==
    /\ request # NoRequest
    /\ Idle
    /\ session_datastores' =
         IF request.registered
         THEN [session_datastores EXCEPT ![request.session_id] = store]
         ELSE session_datastores
    /\ \E raised \in BOOLEAN :
          response' = Response("invoke", IF raised THEN "AgentError" ELSE "none",
                               <<request.session_id>>)
    /\ request' = NoRequest
    /\ UNCHANGED <<core, argsort, store, contexts, raw, interim, tool>>

\* the files every upload of the run carries: one therapist on the full-day
\* shift, one patient of that therapist
UploadedFiles ==
    [therapists |-> <<[ward |-> "3E", exclusive |-> "", gender |-> "M"]>>,
     prescriptions |-> <<[ward |-> "3F-East", primary |-> 1, bathing |-> <<>>,
                          excretion |-> <<>>, other |-> <<>>,
                          category |-> "orthopedic"]>>,
     shifts |-> [columns |-> ShiftColumns, codes |-> <<"O">>]]

\* the process has started: the dict is empty, no request has arrived
InitInvoke ==
    /\ raw = UploadedFiles
    /\ argsort = StableOrder(BuildRequirements(raw.prescriptions),
                             Len(raw.prescriptions))
    /\ store = DataStore
    /\ contexts = <<>>
    /\ session_datastores = NoSessions
    /\ request = NoRequest
    /\ interim = NoInterim
    /\ tool = NoTool
    /\ response = NoResponse
    /\ matrices = NoMatrices
    /\ pc = "idle"
    /\ result = NoSchedule
    /\ therapists = <<>>
    /\ prescriptions = <<>>
    /\ InitRun

NextInvoke ==
    \/ InvokeNoSession
    \/ Invoke
    \/ AgentCallsTool
    \/ ToolOnClosedStore
    \/ InvokeReturn

SpecInvoke == InitInvoke /\ [][NextInvoke]_vars

\* the agent tools on a store whose session is open and holds the three raw
\* files (main.py line 129)
RawTherapistRows == [ward : {"3E"}, exclusive : {"maru", ""}, gender : {"M"}]
ToolShiftCodes == {"O"}
BathingTimes == {<<>>, <<<<9, 0>>, <<15, 0>>>>}
RawPrescriptionRows(nt) ==
    [ward : {"3F-East", "4F-East", "Annex"}, primary : 0..nt,
     bathing : BathingTimes,
     excretion : {<<>>}, other : {<<>>},
     category : {"cerebrovascular"}]

RecordShapes ==
    {sh \in (1..MaxRecords) \X (0..MaxRecords) : sh[1] + sh[2] <= MaxRecords}

InitTools ==
    /\ \E sh \in RecordShapes :
         \E ths \in [1..sh[2] -> RawTherapistRows],
            codes \in [1..sh[2] -> ToolShiftCodes],
            rxs \in [1..sh[1] -> RawPrescriptionRows(sh[2])] :
           raw = [therapists |-> ths, prescriptions |-> rxs,
                  shifts |-> [columns |-> ShiftColumns, codes |-> codes]]
    /\ argsort = StableOrder(BuildRequirements(raw.prescriptions),
                             Len(raw.prescriptions))
    /\ store = [Initialize(DataStore) EXCEPT !.files = RawFiles]
    /\ contexts = <<[was_active |-> FALSE, dir |-> Initialize(DataStore).temp_dir]>>
    /\ session_datastores = NoSessions
    /\ request = NoRequest
    /\ interim = NoInterim
    /\ tool = NoTool
    /\ response = NoResponse
    /\ matrices = NoMatrices
    /\ pc = "idle"
    /\ result = NoSchedule
    /\ therapists = <<>>
    /\ prescriptions = <<>>
    /\ InitRun

NextTools ==
    \/ CreateSchedule
    \/ Reschedule
    \/ UpdateAvailability
    \/ TooEarly
    \/ ListAvailableTimeslots
    \/ Schedule_Steps
    \/ ToolScheduleSaved
    \/ ToolScheduleRaises

SpecTools == InitTools /\ [][NextTools]_vars

\* ------------------------------------------------- one day from raw records
\* the records of one patient and up to MaxStaff therapists are normalized,
\* the matrices built from them and handed to schedule()
DayTherapistRows == [ward : {"3E"}, exclusive : {""}, gender : {"M"}]

\* the circle, the two half-day codes, another code ("X"), an empty cell and
\* no row at all
DayShiftCodes == {"O", "AN", "PN", "X", "", NoShiftEntry}

\* the times found in a cell: none; a range; a range that leaves three slots
DayBathingTimes == {<<>>, <<<<10, 0>>, <<11, 0>>>>, <<<<9, 0>>, <<15, 0>>>>}
\* none; a single time
DayExcretionTimes == {<<>>, <<<<14, 30>>>>}
\* none; three times, of which the first two are the range
DayOtherTimes == {<<>>, <<<<11, 30>>, <<13, 20>>, <<15, 0>>>>}

DayPrescriptionRows(nt) ==
    [ward : {"3F-East"}, primary : 0..nt, bathing : DayBathingTimes,
     excretion : DayExcretionTimes, other : DayOtherTimes,
     category : {"cerebrovascular"}]

DayDate == <<2025, 10, 4>>

InitDay ==
    /\ \E nt \in 0..MaxStaff :
         \E ths \in [1..nt -> DayTherapistRows],
            codes \in [1..nt -> DayShiftCodes],
            rxs \in [1..1 -> DayPrescriptionRows(nt)] :
           raw = [therapists |-> ths, prescriptions |-> rxs,
                  shifts |-> [columns |-> ShiftColumns, codes |-> codes]]
    /\ argsort = StableOrder(BuildRequirements(raw.prescriptions),
                             Len(raw.prescriptions))
    /\ store = Cleanup([Initialize(DataStore) EXCEPT !.files = RawFiles])
    /\ contexts = <<>>
    /\ session_datastores = NoSessions
    /\ request = NoRequest
    /\ interim = NoInterim
    /\ tool = NoTool
    /\ response = NoResponse
    /\ matrices = NoMatrices
    /\ pc = "build"
    /\ result = NoSchedule
    /\ therapists = <<>>
    /\ prescriptions = <<>>
    /\ InitRun

\* DataNormalizer on the three raw inputs, then build_matrices
BuildMatrices ==
    /\ pc = "build"
    /\ response = NoResponse
    /\ DateColumn(raw.shifts, DayDate) # NoColumn
    /\ LET ths == normalize_therapists(raw.therapists)
           rxs == normalize_prescriptions(raw.prescriptions)
           codes == normalize_shifts(raw.shifts, DayDate)
           built == build_matrices(ths, rxs, codes)
       IN  /\ built.raised = "none"
           /\ therapists' = ths
           /\ prescriptions' = rxs
           /\ matrices' = built.matrices
    /\ pc' = "idle"
    /\ UNCHANGED <<patient_avail, therapist_avail, patient_order, pos,
                   available_slots, cost_matrix, patient_assignments,
                   assigned_slots, assignments, unscheduled, result, previous,
                   validation, env>>

\* DataNormalizer on the three raw inputs, then build_matrices on the
\* ConstraintMatrixBuilder of constraints_builder.py, which has no such
\* method: AttributeError, nothing is built or scheduled
BuildMatricesNoBuilder ==
    /\ pc = "build"
    /\ response = NoResponse
    /\ DateColumn(raw.shifts, DayDate) # NoColumn
    /\ response' = Response("build_matrices", "AttributeError", <<>>)
    /\ UNCHANGED <<core, argsort, store, contexts, raw, interim, session_datastores, request, tool>>

NextDay ==
    \/ BuildMatrices
    \/ BuildMatricesNoBuilder
    \/ ScheduleCall
    \/ Schedule_Steps

SpecDay == InitDay /\ [][NextDay]_vars

\* ------------------------------------------------- the command-line flow
\* the commands `preprocess` and `schedule` of cli.py on the files of
\* data/raw, each run to its end before the next one starts
\* what InterimWriter saves (cli.py lines 35-38)
InterimRecordFiles == NormalizedFiles \cup {"name_to_id_mapping.json"}

\* `preprocess --date` when the shift file has no column of the day:
\* normalize_shifts raises ValueError at line 32, before the first save
PreprocessNoDateColumn(target_date) ==
    /\ Idle
    /\ DateColumn(raw.shifts, target_date) = NoColumn
    /\ response' = Response("preprocess", "ValueError", <<>>)
    /\ UNCHANGED <<core, argsort, store, contexts, raw, interim,
                   session_datastores, request, tool>>

\* `preprocess --date`, lines 25-47: the three inputs are normalized and
\* saved, build_all_matrices reads them back and builds the matrices,
\* save_matrices writes them; the counts are echoed
PreprocessBuild(target_date) ==
    /\ Idle
    /\ DateColumn(raw.shifts, target_date) # NoColumn
    /\ LET ths == normalize_therapists(raw.therapists)
           rxs == normalize_prescriptions(raw.prescriptions)
           codes == normalize_shifts(raw.shifts, target_date)
           built == BuildAllMatrices(ths, rxs, codes)
       IN  /\ interim' = [interim EXCEPT
                            !.files = @ \cup InterimRecordFiles \cup MatrixFiles,
                            !.matrices = built]
           /\ response' = Response("preprocess", "none",
                              [patients |-> Len(built.patient_ids),
                               therapists |-> Len(built.therapist_ids)])
    /\ UNCHANGED <<core, argsort, store, contexts, raw, session_datastores,
                   request, tool>>

Preprocess ==
    \E target_date \in TargetDates :
        \/ PreprocessNoDateColumn(target_date)
        \/ PreprocessBuild(target_date)

\* `schedule --date` before any matrices were saved: load_matrices opens
\* matrices_metadata.json (constraints_builder.py line 174)
ScheduleCommandNoMatrices ==
    /\ Idle
    /\ ~(MatrixFiles \subseteq interim.files)
    /\ response' = Response("schedule", "FileNotFoundError", <<>>)
    /\ UNCHANGED <<core, argsort, store, contexts, raw, interim,
                   session_datastores, request, tool>>

\* `schedule --date`, lines 54-58: load_matrices, then schedule() on the
\* loaded matrices up to the scheduler's loop
ScheduleCommandBegin(target_date) ==
    /\ Idle
    /\ MatrixFiles \subseteq interim.files
    /\ ScheduleBeginOn(interim.matrices)
    /\ tool' = [name |-> "schedule", date |-> target_date]
    /\ response' = NoResponse
    /\ UNCHANGED <<therapists, prescriptions, store, contexts, raw, interim,
                   session_datastores, request>>

ScheduleCommand ==
    \/ ScheduleCommandNoMatrices
    \/ \E target_date \in TargetDates : ScheduleCommandBegin(target_date)

\* lines 59-82: the schedule gets the date and is written to schedule.json
ScheduleCommandSaved ==
    /\ pc = "done"
    /\ tool.name = "schedule"
    /\ interim' = [interim EXCEPT !.files = @ \cup {"schedule.json"},
                                  !.schedule = result,
                                  !.date = tool.date]
    /\ response' = Response("schedule", "none",
                       [date |-> tool.date,
                        assignments |-> Len(result.assignments),
                        unscheduled |-> Len(result.unscheduled_patients)])
    /\ tool' = NoTool
    /\ pc' = "idle"
    /\ ForgetRun
    /\ UNCHANGED <<matrices, result, therapists, prescriptions, argsort,
                   store, contexts, raw, session_datastores, request>>

\* the error of the scheduler ends the command; nothing is written
ScheduleCommandRaises ==
    /\ pc = "error"
    /\ tool.name = "schedule"
    /\ response' = Response("schedule", "ValueError", <<>>)
    /\ tool' = NoTool
    /\ pc' = "idle"
    /\ ForgetRun
    /\ UNCHANGED <<matrices, result, therapists, prescriptions, argsort,
                   store, contexts, raw, interim, session_datastores, request>>

\* the raw files of data/raw; no DataStore is used
InitCli ==
    /\ \E sh \in RecordShapes :
         \E ths \in [1..sh[2] -> RawTherapistRows],
            codes \in [1..sh[2] -> ToolShiftCodes],
            rxs \in [1..sh[1] -> RawPrescriptionRows(sh[2])] :
           raw = [therapists |-> ths, prescriptions |-> rxs,
                  shifts |-> [columns |-> ShiftColumns, codes |-> codes]]
    /\ argsort = StableOrder(BuildRequirements(raw.prescriptions),
                             Len(raw.prescriptions))
    /\ store = DataStore
    /\ contexts = <<>>
    /\ session_datastores = NoSessions
    /\ request = NoRequest
    /\ interim = NoInterim
    /\ tool = NoTool
    /\ response = NoResponse
    /\ matrices = NoMatrices
    /\ pc = "idle"
    /\ result = NoSchedule
    /\ therapists = <<>>
    /\ prescriptions = <<>>
    /\ InitRun

NextCli ==
    \/ Preprocess
    \/ ScheduleCommand
    \/ Schedule_Steps
    \/ ScheduleCommandSaved
    \/ ScheduleCommandRaises

SpecCli == InitCli /\ [][NextCli]_vars

\* ------------------------------------------------------------- properties
\* the assignments made so far in the running call
MadeSoFar == assignments \o patient_assignments

\* no two distinct positions of asg agree on the two named fields
NoTwoShare(asg, f1, f2) ==
    \A a, b \in 1..Len(asg) :
        (a # b /\ asg[a][f1] = asg[b][f1]) => asg[a][f2] # asg[b][f2]

AssignmentsOf(asg, pid) == {k \in 1..Len(asg) : asg[k].patient_id = pid}

PatientIndices == 1..NumPatients(matrices)
TherapistIndices == 1..NumTherapists(matrices)

\* C1: no therapist holds two assignments in the same timeslot, neither in
\* a returned Schedule nor among the assignments made so far at any step.
C1_NoDoubleBooking ==
    /\ NoTwoShare(MadeSoFar, "therapist_id", "timeslot")
    /\ NoTwoShare(result.assignments, "therapist_id", "timeslot")

\* C1 witness: a returned Schedule in which one therapist serves two
\* different patients (in different slots).
C1_Witness ==
    /\ pc = "done"
    /\ \E a, b \in 1..Len(result.assignments) :
          /\ result.assignments[a].therapist_id = result.assignments[b].therapist_id
          /\ result.assignments[a].patient_id # result.assignments[b].patient_id

\* C2: no patient holds two assignments in the same timeslot in a returned
\* Schedule.
C2_NoPatientDoubleSlot ==
    result.returned => NoTwoShare(result.assignments, "patient_id", "timeslot")

\* C2 witness: a returned Schedule in which one patient holds two assignments
\* although a second therapist was free in the first assignment's slot.
C2_Witness ==
    /\ pc = "done"
    /\ \E a, b \in 1..Len(result.assignments) :
          /\ a # b
          /\ result.assignments[a].patient_id = result.assignments[b].patient_id
          /\ \E j \in TherapistIndices, i \in PatientIndices :
                /\ matrices.patient_ids[i] = result.assignments[a].patient_id
                /\ matrices.therapist_ids[j] # result.assignments[a].therapist_id
                /\ matrices.therapist_availability[j][result.assignments[a].timeslot] = 1
                /\ matrices.compatibility[i][j] > 0

PositiveMultiple(minutes) == minutes > 0 /\ minutes % SLOT_MINUTES = 0

\* C3: coverage law. In a returned Schedule over requirements that are
\* positive multiples of 20, a patient not listed as unscheduled holds exactly
\* required/20 assignments of 20 minutes, a listed patient holds less than
\* the required minutes.
C3_CoverageLaw ==
    (result.returned /\ \A i \in PatientIndices : PositiveMultiple(matrices.requirements[i]))
    => \A i \in PatientIndices :
          LET mine == AssignmentsOf(result.assignments, matrices.patient_ids[i])
          IN  /\ \A k \in mine : result.assignments[k].duration_minutes = SLOT_MINUTES
              /\ IF matrices.patient_ids[i] \in Range(result.unscheduled_patients)
                 THEN Cardinality(mine) * SLOT_MINUTES < matrices.requirements[i]
                 ELSE /\ Cardinality(mine) = matrices.requirements[i] \div SLOT_MINUTES
                      /\ Cardinality(mine) * SLOT_MINUTES = matrices.requirements[i]

\* C3 witness: a returned Schedule with a scheduled patient holding two
\* assignments and another patient listed as unscheduled.
C3_Witness ==
    /\ pc = "done"
    /\ Len(result.unscheduled_patients) >= 1
    /\ \E i \in PatientIndices :
          /\ matrices.patient_ids[i] \notin Range(result.unscheduled_patients)
          /\ Cardinality(AssignmentsOf(result.assignments, matrices.patient_ids[i])) >= 2

\* C4: every call returns a Schedule (no error escapes), and the returned
\* list of unscheduled patients names, once each, exactly the patients that
\* hold fewer assignments than their required slot count.
C4_AlwaysReturnsAndNamesUnscheduled ==
    /\ pc # "error"
    /\ result.returned =>
          /\ \A a, b \in 1..Len(result.unscheduled_patients) :
                a # b => result.unscheduled_patients[a] # result.unscheduled_patients[b]
          /\ \A i \in PatientIndices :
                (matrices.patient_ids[i] \in Range(result.unscheduled_patients))
                <=> (Cardinality(AssignmentsOf(result.assignments, matrices.patient_ids[i]))
                       < matrices.requirements[i] \div SLOT_MINUTES)

\* C5: every assignment of a returned Schedule, and every assignment made so
\* far, pairs a patient and a therapist that the input matrices both mark
\* available in the assignment's slot.
RespectsAvailability(asg) ==
    \A k \in 1..Len(asg) :
        \E i \in PatientIndices, j \in TherapistIndices, sl \in 1..NumTimeslots(matrices) :
            /\ matrices.patient_ids[i] = asg[k].patient_id
            /\ matrices.therapist_ids[j] = asg[k].therapist_id
            /\ matrices.timeslots[sl] = asg[k].timeslot
            /\ matrices.patient_availability[i][sl] = 1
            /\ matrices.therapist_availability[j][sl] = 1

C5_RespectsAvailability ==
    /\ RespectsAvailability(result.assignments)
    /\ RespectsAvailability(MadeSoFar)

\* C5 witness: a returned Schedule with an assignment whose patient is
\* blocked in another slot and whose therapist is off in another slot, next to
\* a compatible therapist with no available slot.
C5_Witness ==
    /\ pc = "done"
    /\ \E k \in 1..Len(result.assignments), i \in PatientIndices, j \in TherapistIndices :
          /\ matrices.patient_ids[i] = result.assignments[k].patient_id
          /\ matrices.therapist_ids[j] = result.assignments[k].therapist_id
          /\ \E sl \in 1..NumTimeslots(matrices) : matrices.patient_availability[i][sl] = 0
          /\ \E sl \in 1..NumTimeslots(matrices) : matrices.therapist_availability[j][sl] = 0
          /\ \E j2 \in TherapistIndices :
                /\ matrices.compatibility[i][j2] > 0
                /\ \A sl \in 1..NumTimeslots(matrices) :
                      matrices.therapist_availability[j2][sl] = 0

\* the pairs (patient, therapist) whose therapist is exclusive to another ward
ExclusiveOtherWard(i, j) ==
    therapists[j].exclusive /\ therapists[j].ward # prescriptions[i].ward

Pairs(asg, i, j) ==
    \E k \in 1..Len(asg) :
        /\ asg[k].patient_id = matrices.patient_ids[i]
        /\ asg[k].therapist_id = matrices.therapist_ids[j]

\* C6 as stated: every pair with an exclusive therapist of another ward scores
\* 0 and is never assigned.
C6_ExclusiveOtherWardAlwaysBlocked ==
    pc # "build" =>
        \A i \in PatientIndices, j \in TherapistIndices :
            ExclusiveOtherWard(i, j) =>
                /\ matrices.compatibility[i][j] = 0
                /\ ~Pairs(MadeSoFar, i, j)
                /\ ~Pairs(result.assignments, i, j)

\* C6 amended: every pair with an exclusive therapist of another ward who is
\* not the patient's primary therapist scores 0 and is never assigned.
C6_ExclusiveOtherWardBlockedUnlessPrimary ==
    pc # "build" =>
        \A i \in PatientIndices, j \in TherapistIndices :
            (ExclusiveOtherWard(i, j) /\ PrimaryTherapist(prescriptions[i]) # j) =>
                /\ matrices.compatibility[i][j] = 0
                /\ ~Pairs(MadeSoFar, i, j)
                /\ ~Pairs(result.assignments, i, j)

\* C6 witness: a returned Schedule in which a patient is served by one
\* therapist while another, exclusive to a different ward and not the
\* patient's primary, was free in the same slots.
C6_Witness ==
    /\ pc = "done"
    /\ therapists # <<>>
    /\ \E i \in PatientIndices, j, j2 \in TherapistIndices :
          /\ ExclusiveOtherWard(i, j)
          /\ PrimaryTherapist(prescriptions[i]) # j
          /\ j2 > j
          /\ Pairs(result.assignments, i, j2)

AsTuples(asg) ==
    {<<asg[k].patient_id, asg[k].therapist_id, asg[k].timeslot>> : k \in 1..Len(asg)}

\* C7: determinism. Two successive calls of schedule() on the same matrices
\* return the same set of (patient, therapist, timeslot) tuples and the same
\* unscheduled_patients list.
C7_Deterministic ==
    (result.returned /\ previous.returned) =>
        /\ AsTuples(result.assignments) = AsTuples(previous.assignments)
        /\ result.unscheduled_patients = previous.unscheduled_patients

\* C7 witness: a second call has returned, with assignments and with an
\* unscheduled patient.
C7_Witness ==
    /\ pc = "done"
    /\ previous.returned
    /\ Len(result.assignments) >= 2
    /\ Len(result.unscheduled_patients) >= 1

\* C8: when the greedy loop of a patient hits the sentinel, the assignments
\* it has made for that patient so far are kept for the returned Schedule.
C8_PartialAssignmentsKept ==
    [][LoopInfeasible => assignments' = assignments \o patient_assignments]_vars

\* C9: scenario A (1 patient, 1 therapist, 18 free slots, compatibility 100,
\* 120 minutes) returns exactly 6 assignments, all with that therapist in
\* pairwise different slots, and no unscheduled patient.
C9_ScenarioA ==
    (matrices = ScenarioA /\ result.returned) =>
        /\ Len(result.assignments) = 6
        /\ \A k \in 1..Len(result.assignments) :
              /\ result.assignments[k].therapist_id = ScenarioA.therapist_ids[1]
              /\ result.assignments[k].patient_id = ScenarioA.patient_ids[1]
        /\ Cardinality(AsTuples(result.assignments)) = 6
        /\ result.unscheduled_patients = <<>>

\* C9 witness: the call on scenario A has returned.
C9_Witness == matrices = ScenarioA /\ pc = "done"

\* ascending enumeration of a finite set of integers
Ascending(S) ==
    [k \in 1..Cardinality(S) |->
        CHOOSE x \in S : Cardinality({y \in S : y < x}) = k - 1]

ShortPatients(asg) ==
    {i \in PatientIndices :
        Cardinality(AssignmentsOf(asg, matrices.patient_ids[i])) * SLOT_MINUTES
            < matrices.requirements[i]}

RepeatedPositions(asg) ==
    {k \in 1..Len(asg) :
        \E h \in 1..(k - 1) :
            /\ asg[h].therapist_id = asg[k].therapist_id
            /\ asg[h].timeslot = asg[k].timeslot}

\* C10 (state part): validate() reports valid exactly when no patient of the matrices is
\* short of minutes and no (therapist, timeslot) pair repeats; its errors are
\* the shortfalls in patient order followed by the repeats in assignment
\* order; and it changes neither the schedule nor the matrices.
C10_ValidatorState ==
    pc = "validated" =>
        LET asg == result.assignments
            short == Ascending(ShortPatients(asg))
            rep == Ascending(RepeatedPositions(asg))
        IN  /\ validation.is_valid
                  <=> (ShortPatients(asg) = {} /\ RepeatedPositions(asg) = {})
            /\ Len(validation.errors) = Len(short) + Len(rep)
            /\ \A k \in 1..Len(short) :
                  /\ validation.errors[k].kind = "shortfall"
                  /\ validation.errors[k].patient_id = matrices.patient_ids[short[k]]
            /\ \A k \in 1..Len(rep) :
                  /\ validation.errors[Len(short) + k].kind = "double"
                  /\ validation.errors[Len(short) + k].therapist_id = asg[rep[k]].therapist_id
                  /\ validation.errors[Len(short) + k].timeslot = asg[rep[k]].timeslot

\* C10: the validator's result is as described in every validated state,
\* and a validate() step leaves the schedule and the matrices as they were.
C10_Validator ==
    /\ []C10_ValidatorState
    /\ [][ValidateSchedule => (result' = result /\ matrices' = matrices)]_vars

\* C10 witness: a validated schedule with a shortfall, two repeats of
\* different (therapist, timeslot) pairs and an assignment of a patient id
\* the matrices do not know.
C10_Witness ==
    /\ pc = "validated"
    /\ ShortPatients(result.assignments) # {}
    /\ \E h, k \in RepeatedPositions(result.assignments) :
          /\ h < k
          /\ <<result.assignments[h].therapist_id, result.assignments[h].timeslot>>
                # <<result.assignments[k].therapist_id, result.assignments[k].timeslot>>
    /\ \E k \in 1..Len(result.assignments) :
          result.assignments[k].patient_id = UnknownPatientId
    /\ ~validation.is_valid

\* ----------------------------------------------------- tools and sessions
\* the stored matrices mark patient i unavailable in slot s
StoredBlocked(i, s) ==
    /\ HasMatrices(store)
    /\ i \in 1..Len(store.matrices.patient_ids)
    /\ store.matrices.patient_availability[i][s] = 0

\* the step is a create_schedule call that rebuilds the matrices
Rebuilds == \E target_date \in TargetDates : CreateScheduleBuild(target_date)

\* the step is an update_patient_availability call that sets patient i
\* available in slot s
MakesAvailable(i, s) ==
    \E timeslot_list \in TimeslotLists :
        /\ generate_timeslots[s] \in Range(timeslot_list)
        /\ UpdatePatientAvailability(store.matrices.patient_ids[i], timeslot_list, TRUE)

\* every assignment of asg has its patient available in its slot according
\* to the stored matrices
WithinStored(asg) ==
    \A k \in 1..Len(asg) :
        store.matrices.patient_availability
            [IndexOf(store.matrices.patient_ids, asg[k].patient_id)]
            [IndexOf(store.matrices.timeslots, asg[k].timeslot)] = 1

\* an update_schedule call runs on the stored matrices as they are, and the
\* Schedule it makes, returns and saves has no assignment of a patient in a
\* slot the stored matrices mark unavailable
ScheduledFromStore ==
    /\ (tool.name = "update_schedule" /\ pc \in {"patient", "loop", "done"}) =>
          /\ matrices = store.matrices
          /\ WithinStored(MadeSoFar)
          /\ WithinStored(result.assignments)
    /\ (response.tool = "update_schedule" /\ response.error = "none") =>
          /\ WithinStored(result.assignments)
          /\ store.processed[response.value.date] = result

\* C11 as stated: a slot that update_patient_availability has made
\* unavailable for a patient stays unavailable in the stored matrices through
\* every tool call that does not rebuild them, and update_schedule schedules
\* from the stored matrices, so its Schedule has no assignment of the patient
\* in that slot.
C11_BlockedThroughEveryOtherCall ==
    /\ []ScheduledFromStore
    /\ [][\A i \in 1..MaxRecords, s \in 1..Len(generate_timeslots) :
            (StoredBlocked(i, s) /\ ~StoredBlocked(i, s)') => Rebuilds]_vars

\* C11 amended: the slot stays unavailable in the stored matrices through
\* every tool call that neither rebuilds them nor is an
\* update_patient_availability call making that patient available in that slot
\* again, and update_schedule schedules from the stored matrices, so its
\* Schedule has no assignment of the patient in that slot.
C11_BlockedUntilRebuiltOrReopened ==
    /\ []ScheduledFromStore
    /\ [][\A i \in 1..MaxRecords, s \in 1..Len(generate_timeslots) :
            (StoredBlocked(i, s) /\ ~StoredBlocked(i, s)')
                => (Rebuilds \/ MakesAvailable(i, s))]_vars

\* C11 witness: an update_schedule call has returned for a patient whom a
\* tool call made unavailable in the first slot (the raw data leave it free),
\* who held that slot in the schedule before and holds other slots now.
C11_Witness ==
    /\ pc = "done"
    /\ tool.name = "update_schedule"
    /\ \E i \in 1..Len(store.matrices.patient_ids) :
          /\ store.matrices.patient_availability[i][1] = 0
          /\ BuildPatientAvailability(prescriptions)[i][1] = 1
          /\ \E k \in 1..Len(previous.assignments) :
                /\ previous.assignments[k].patient_id = store.matrices.patient_ids[i]
                /\ previous.assignments[k].timeslot = generate_timeslots[1]
          /\ \E k \in 1..Len(result.assignments) :
                result.assignments[k].patient_id = store.matrices.patient_ids[i]

\* the matrix files and the schedules of the store are untouched by the step
NothingBuiltOrSaved ==
    /\ store'.matrices = store.matrices
    /\ store'.files \cap MatrixFiles = store.files \cap MatrixFiles
    /\ store'.processed = store.processed
    /\ matrices' = matrices
    /\ result' = result
    /\ pc' = "idle"
    /\ tool' = NoTool

\* C12: a create_schedule call for a date whose day has no column in the
\* shift data ends with the ValueError of normalize_shifts at its caller, with
\* no matrix built or saved, no scheduler run and no Schedule produced or
\* saved; the pipeline goes on to build and schedule only for a date that has
\* a column.
C12_MissingDateColumnStopsPipeline ==
    /\ [][\A d \in TargetDates :
            (DayOf(d) \notin raw.shifts.columns /\ CreateScheduleNoDateColumn(d))
                => (response'.error = "ValueError" /\ NothingBuiltOrSaved)]_vars
    /\ [][(tool = NoTool /\ tool'.name = "create_schedule")
                => DayOf(tool'.date) \in raw.shifts.columns]_vars

\* C12 witness: create_schedule has failed with the ValueError; the two
\* record files are saved, no matrix file and no schedule is.
C12_Witness ==
    /\ response = Response("create_schedule", "ValueError", <<>>)
    /\ pc = "idle"
    /\ "normalized_therapists.csv" \in store.files
    /\ store.files \cap MatrixFiles = {}
    /\ \A d \in TargetDates : store.processed[d] = NoSchedule

\* C13: when a patient record carries a ward name without an entry in the
\* ward map, no matrices are ever built and saved, neither in a store nor
\* in data/interim, and the scheduler never runs.
C13_UnmappedWardStopsConstruction ==
    (\E i \in 1..Len(raw.prescriptions) :
        raw.prescriptions[i].ward \notin DOMAIN WARD_MAP)
    => /\ ~HasMatrices(store)
       /\ interim.matrices = NoMatrices
       /\ pc = "idle"
       /\ tool = NoTool

StartsWithin(slot, from, to) ==
    /\ (from = slot.start \/ TimeLess(from, slot.start))
    /\ (slot.start = to \/ TimeLess(slot.start, to))

SlotsOf(infos) == {infos[k].timeslot : k \in 1..Len(infos)}

\* C14: generate_timeslots gives 18 distinct labels in chronological order,
\* 9 starting from 09:00 to 11:40 and 9 from 13:00 to 15:40, and
\* list_available_timeslots reports total_slots = 18, morning_slots the 9
\* slots starting before 12:00 and afternoon_slots the 9 slots starting at
\* 13:00 or later.
C14_TimeslotsAndGrouping ==
    /\ Len(generate_timeslots) = NUM_TIMESLOTS
    /\ \A a, b \in 1..Len(generate_timeslots) :
          a < b => TimeLess(generate_timeslots[a].start, generate_timeslots[b].start)
    /\ Cardinality({k \in 1..Len(generate_timeslots) :
          StartsWithin(generate_timeslots[k], <<9, 0>>, <<11, 40>>)}) = 9
    /\ Cardinality({k \in 1..Len(generate_timeslots) :
          StartsWithin(generate_timeslots[k], <<13, 0>>, <<15, 40>>)}) = 9
    /\ response.tool = "list_available_timeslots" =>
          /\ response.value.total_slots = NUM_TIMESLOTS
          /\ Len(response.value.morning_slots) = 9
          /\ SlotsOf(response.value.morning_slots)
                = {t \in Range(generate_timeslots) : t.start[1] < 12}
          /\ Len(response.value.afternoon_slots) = 9
          /\ SlotsOf(response.value.afternoon_slots)
                = {t \in Range(generate_timeslots) : t.start[1] >= 13}

\* while a context is open the store is active on the directory the
\* outermost context was given, every context was given that directory, and
\* the directory exists; with no context open the store is inactive and no
\* directory is left
SessionState ==
    /\ \A k \in 1..Len(contexts) :
          /\ contexts[k].dir = contexts[1].dir
          /\ store.session_active
          /\ store.temp_dir = contexts[1].dir
          /\ contexts[1].dir \in store.dirs
    /\ contexts = <<>> =>
          /\ ~store.session_active
          /\ store.temp_dir = NoDir
          /\ store.dirs = {}
          /\ store.files = {}

\* C15: a nested session() yields the directory of the enclosing session;
\* leaving an inner context, normally or by exception, leaves the directory
\* and its files as they are; leaving the outermost one, normally or by
\* exception, removes the directory and deactivates the store; at any depth.
C15_NestedSessions ==
    /\ []SessionState
    /\ [][(Len(contexts) > 1 /\ Len(contexts') < Len(contexts)) => store' = store]_vars
    /\ [][(Len(contexts) = 1 /\ contexts' = <<>>)
            => (~store'.session_active /\ contexts[1].dir \notin store'.dirs)]_vars

\* C15 witness: in the store's second directory, an exception has left a
\* context nested three deep and the two enclosing contexts are still open on
\* the directory with its files.
C15_Witness ==
    /\ Len(contexts) = 2
    /\ response = Response("session", "BodyError", <<>>)
    /\ store.made = 2
    /\ store.files # {}
    /\ store.temp_dir \in store.dirs

\* ------------------------------------------------------- scheduler order
PositionOf(pid) ==
    CHOOSE k \in 1..Len(patient_order) : matrices.patient_ids[patient_order[k]] = pid

\* C16: patients are processed in descending requirement, equal requirements
\* in input order, and one after another: every assignment made so far belongs
\* to a patient processed no later than the assignments after it.
C16_DescendingStableOrder ==
    pc # "idle" =>
        /\ patient_order = StableOrder(matrices.requirements, NumPatients(matrices))
        /\ \A a, b \in 1..Len(MadeSoFar) :
              a < b => PositionOf(MadeSoFar[a].patient_id)
                           <= PositionOf(MadeSoFar[b].patient_id)

\* slots of therapist j that assignments of this run have consumed
ConsumedBy(j) ==
    Cardinality({s \in 1..NumTimeslots(matrices) :
        matrices.therapist_availability[j][s] = 1 /\ therapist_avail[j][s] = 0})

\* slots of patient i that assignments of this run have consumed
ConsumedOf(i) ==
    Cardinality({s \in 1..NumTimeslots(matrices) :
        matrices.patient_availability[i][s] = 1 /\ patient_avail[i][s] = 0})

\* C17: a freshly built cost matrix has, in every cell whose therapist is
\* available in the slot and compatible, -compatibility + 5 x (slots of the
\* therapist consumed earlier in this run), hence penalty 0 for the first
\* patient; every other cell holds 1000.
C17_CostFormula ==
    (pc = "loop" /\ assigned_slots = 0) =>
        \A i \in 1..Len(available_slots), j \in TherapistIndices :
            cost_matrix[i][j] =
                IF therapist_avail[j][available_slots[i]] = 1
                   /\ matrices.compatibility[patient_idx][j] > 0
                THEN (0 - matrices.compatibility[patient_idx][j])
                     + WORKLOAD_WEIGHT * ConsumedBy(j)
                ELSE SENTINEL

\* the cell of the cost matrix that the step assigns
ChosenCell ==
    LET a == patient_assignments'[Len(patient_assignments')]
    IN  CHOOSE c \in CostCells(cost_matrix, NumTherapists(matrices)) :
            /\ matrices.timeslots[available_slots[c[1]]] = a.timeslot
            /\ matrices.therapist_ids[c[2]] = a.therapist_id

\* C18: every step of the greedy loop assigns a cell of minimum cost in the
\* remaining cost matrix, and among the cells of that cost the one of the
\* lowest slot index, then the lowest therapist index.
C18_RowMajorMinimum ==
    [][LoopAssign =>
        \A d \in CostCells(cost_matrix, NumTherapists(matrices)) :
            /\ cost_matrix[ChosenCell[1]][ChosenCell[2]] <= cost_matrix[d[1]][d[2]]
            /\ cost_matrix[d[1]][d[2]] = cost_matrix[ChosenCell[1]][ChosenCell[2]]
                  => (ChosenCell[1] < d[1]
                      \/ (ChosenCell[1] = d[1] /\ ChosenCell[2] <= d[2]))]_vars

\* C18 witness: the first patient has just received its first assignment
\* from a cost matrix whose minimum was shared by a cell of a later slot with
\* an earlier therapist.
C18_Witness ==
    /\ pc = "loop"
    /\ pos = 1
    /\ assigned_slots = 1
    /\ LET nt == NumTherapists(matrices)
           cm == BuildCostMatrix(matrices, matrices.therapist_availability,
                                 patient_idx, available_slots)
       IN  \E c, d \in CostCells(cm, nt) :
              /\ c[1] < d[1]
              /\ d[2] < c[2]
              /\ cm[c[1]][c[2]] = CostMin(cm, nt)
              /\ cm[d[1]][d[2]] = CostMin(cm, nt)
              /\ CostMin(cm, nt) < SENTINEL
              /\ patient_assignments[1].timeslot = matrices.timeslots[available_slots[c[1]]]
              /\ patient_assignments[1].therapist_id = matrices.therapist_ids[c[2]]

HeldBy(asg, field, id) == Cardinality({k \in 1..Len(asg) : asg[k][field] = id})

\* C19: at the end of a run every therapist has lost as many available slots
\* in the working matrix as the returned Schedule holds assignments of that
\* therapist, and every patient likewise.
C19_CapacityMatchesSchedule ==
    pc = "done" =>
        /\ \A j \in TherapistIndices :
              ConsumedBy(j) = HeldBy(result.assignments, "therapist_id",
                                     matrices.therapist_ids[j])
        /\ \A i \in PatientIndices :
              ConsumedOf(i) = HeldBy(result.assignments, "patient_id",
                                     matrices.patient_ids[i])

FreeSlots(i) ==
    Cardinality({s \in 1..NumTimeslots(matrices) : patient_avail[i][s] = 1})

\* C20: when a patient's turn comes with fewer available slots left than
\* required slots, the turn ends with the patient appended to the unscheduled
\* list, no assignment added, both working matrices as before and no error.
C20_TooFewSlotsLeavesNoTrace ==
    [][(/\ pc = "patient"
        /\ pos <= Len(patient_order)
        /\ FreeSlots(patient_idx) < matrices.requirements[patient_idx] \div SLOT_MINUTES)
       => /\ unscheduled' = Append(unscheduled, matrices.patient_ids[patient_idx])
          /\ assignments' = assignments
          /\ patient_assignments' = <<>>
          /\ patient_avail' = patient_avail
          /\ therapist_avail' = therapist_avail
          /\ pc' = "patient"
          /\ pos' = pos + 1]_vars

\* C20 witness: a patient with one available slot and a larger requirement
\* has been listed as unscheduled without any assignment, its availability
\* untouched, after another patient was scheduled.
C20_Witness ==
    /\ pc = "patient"
    /\ assignments # <<>>
    /\ unscheduled # <<>>
    /\ \E i \in PatientIndices :
          /\ unscheduled[Len(unscheduled)] = matrices.patient_ids[i]
          /\ FreeSlots(i) >= 1
          /\ patient_avail[i] = matrices.patient_availability[i]
          /\ FreeSlots(i) < matrices.requirements[i] \div SLOT_MINUTES
          /\ AssignmentsOf(assignments, matrices.patient_ids[i]) = {}

\* ------------------------------------------------- frame and termination
\* C21: schedule() leaves its input unchanged: no step of a call changes
\* matrices.patient_availability, matrices.therapist_availability,
\* matrices.compatibility or matrices.requirements; only the working copies
\* of the two availability matrices are written.
C21_InputUnchanged ==
    [][/\ matrices'.patient_availability = matrices.patient_availability
       /\ matrices'.therapist_availability = matrices.therapist_availability
       /\ matrices'.compatibility = matrices.compatibility
       /\ matrices'.requirements = matrices.requirements]_vars

\* C21 witness: a call has returned assignments, and both working copies
\* differ from the input matrices.
C21_Witness ==
    /\ pc = "done"
    /\ result.assignments # <<>>
    /\ patient_avail # matrices.patient_availability
    /\ therapist_avail # matrices.therapist_availability

\* the call has ended, by return or by an exception
Terminated == pc \in {"done", "error"}

\* how often the turn of patient i has begun so far in the call
TimesProcessed(i) ==
    Cardinality({k \in 1..Len(patient_order) :
        /\ patient_order[k] = i
        /\ (k < pos \/ (k = pos /\ pc \in {"loop", "error"}))})

\* C22: schedule() terminates; each iteration of a patient's greedy loop
\* either creates one assignment or ends that patient's processing; a
\* patient's loop makes at most required-slot-count assignments; and when the
\* call has ended each patient has been processed exactly once.
C22_TerminatesEachPatientOnce ==
    /\ <>Terminated
    /\ [][(pc = "loop" /\ assigned_slots < required_slots) =>
            \/ /\ pc' = "loop"
               /\ pos' = pos
               /\ Len(patient_assignments') = Len(patient_assignments) + 1
               /\ assigned_slots' = assigned_slots + 1
            \/ pc' # "loop"]_vars
    /\ [](pc = "loop" => assigned_slots <= required_slots)
    /\ [](Terminated => \A i \in 1..NumPatients(matrices) : TimesProcessed(i) = 1)

\* ------------------------------------------------------ built matrices
\* the score the rules give therapist j for patient i
RuleScore(i, j) ==
    LET rx == prescriptions[i]
        th == therapists[j]
        resolvable == rx.primary \in 1..Len(therapists)
    IN  IF rx.primary = j THEN 100
        ELSE IF th.exclusive /\ th.ward # rx.ward THEN 0
        ELSE 20
             + (IF th.ward = rx.ward THEN 20 ELSE 0)
             + (IF resolvable /\ th.gender = therapists[rx.primary].gender
                THEN 40 ELSE 0)

\* C23: the built compatibility matrix holds, for every pair, 100 for the
\* patient's primary therapist, otherwise 0 for an exclusive therapist of
\* another ward, otherwise 20, plus 20 for the same ward, plus 40 for the
\* gender of the patient's resolvable primary therapist; every score is one
\* of 0, 20, 40, 60, 80, 100, no non-primary score exceeds 80, and the primary
\* therapist's score is the maximum of the patient's row.
C23_CompatibilityScores ==
    pc # "build" =>
        \A i \in 1..NumPatients(matrices), j \in 1..NumTherapists(matrices) :
            /\ matrices.compatibility[i][j] = RuleScore(i, j)
            /\ matrices.compatibility[i][j] \in {0, 20, 40, 60, 80, 100}
            /\ prescriptions[i].primary # j => matrices.compatibility[i][j] <= 80
            /\ prescriptions[i].primary = j =>
                  \A h \in 1..NumTherapists(matrices) :
                      matrices.compatibility[i][h] <= matrices.compatibility[i][j]

\* C23 witness: a built row with the primary therapist at 100, an
\* exclusive therapist of another ward at 0 and a therapist of the primary's
\* gender at 80 or 60.
C23_Witness ==
    /\ pc = "idle"
    /\ \E i \in 1..NumPatients(matrices) :
          \E p, j, h \in 1..NumTherapists(matrices) :
              /\ prescriptions[i].primary = p
              /\ matrices.compatibility[i][p] = 100
              /\ matrices.compatibility[i][j] = 0
              /\ therapists[j].exclusive
              /\ matrices.compatibility[i][h] \in {60, 80}

\* the patients of the findings of one kind
Findings(kind) ==
    {validation.errors[k] : k \in {h \in 1..Len(validation.errors) :
                                      validation.errors[h].kind = kind}}

\* C24: for a Schedule returned by schedule(m) on requirements that are
\* positive multiples of 20, validate(s, m) reports no double booking,
\* reports a shortfall for exactly the patients of s.unscheduled_patients, and
\* is_valid holds if and only if unscheduled_patients is empty.
C24_ValidatorAgreesWithScheduler ==
    (/\ pc = "validated"
     /\ \A i \in 1..NumPatients(matrices) : PositiveMultiple(matrices.requirements[i]))
    => /\ Findings("double") = {}
       /\ {e.patient_id : e \in Findings("shortfall")}
             = Range(result.unscheduled_patients)
       /\ validation.is_valid <=> (result.unscheduled_patients = <<>>)

\* C24 witness: validate() has run on a returned Schedule that holds
\* assignments of one patient and lists another as unscheduled, and has
\* reported the shortfall of that patient alone.
C24_Witness ==
    /\ pc = "validated"
    /\ result.assignments # <<>>
    /\ Len(result.unscheduled_patients) = 1
    /\ ~validation.is_valid
    /\ Len(validation.errors) = 1
    /\ validation.errors[1].kind = "shortfall"
    /\ validation.errors[1].patient_id = result.unscheduled_patients[1]

\* the primary therapist of the current patient is free, or was taken by this
\* patient, in one of the slots the patient had when the turn began
PrimaryWasAvailable(p) ==
    \/ \E k \in 1..Len(available_slots) : therapist_avail[p][available_slots[k]] = 1
    \/ \E k \in 1..Len(patient_assignments) :
          patient_assignments[k].therapist_id = matrices.therapist_ids[p]

\* C25: a patient whose loop has made all its required assignments, and
\* whose primary therapist (score 100) was available in one of the patient's
\* available slots when the turn began, holds an assignment with the primary
\* therapist.
C25_PrimaryTherapistPreferred ==
    (/\ pc = "loop"
     /\ ~(assigned_slots < required_slots)
     /\ prescriptions # <<>>)
    => \A p \in 1..NumTherapists(matrices) :
          (/\ prescriptions[patient_idx].primary = p
           /\ matrices.compatibility[patient_idx][p] = PRIMARY_SCORE
           /\ PrimaryWasAvailable(p))
          => \E k \in 1..Len(patient_assignments) :
                patient_assignments[k].therapist_id = matrices.therapist_ids[p]

MinuteOfDay(t) == t[1] * 60 + t[2]

\* the annotation with these times blocks the slot
Blocks(times, slot) ==
    IF Len(times) = 0 THEN FALSE
    ELSE IF Len(times) = 1
         THEN /\ MinuteOfDay(times[1]) <= MinuteOfDay(slot.start)
              /\ MinuteOfDay(slot.start) < MinuteOfDay(times[1]) + 60
         ELSE /\ MinuteOfDay(times[1]) <= MinuteOfDay(slot.start)
              /\ MinuteOfDay(slot.start) < MinuteOfDay(times[2])

\* C26: the built patient availability has 18 slots per patient; a slot is
\* 0 if and only if one of the three annotations blocks it: a range blocks the
\* slots starting at or after its start and before its end, a single time the
\* slots starting within the hour from it, an empty or unparseable annotation
\* none; without annotations all 18 slots are 1.
C26_PatientAvailabilityFromAnnotations ==
    pc # "build" =>
        \A i \in 1..NumPatients(matrices) :
            /\ Len(matrices.patient_availability[i]) = NUM_TIMESLOTS
            /\ \A s \in 1..NUM_TIMESLOTS :
                  /\ matrices.patient_availability[i][s] \in {0, 1}
                  /\ matrices.patient_availability[i][s] = 0 <=>
                        \/ Blocks(raw.prescriptions[i].bathing, generate_timeslots[s])
                        \/ Blocks(raw.prescriptions[i].excretion, generate_timeslots[s])
                        \/ Blocks(raw.prescriptions[i].other, generate_timeslots[s])

\* C26 witness: a patient with a range 10:00-11:00, a single time 14:30 and
\* a range 11:30-13:20 is unavailable in exactly the slots starting at 10:00,
\* 10:20, 10:40, 11:40, 13:00, 14:40, 15:00 and 15:20.
C26_Witness ==
    /\ pc = "idle"
    /\ raw.prescriptions[1].bathing = <<<<10, 0>>, <<11, 0>>>>
    /\ raw.prescriptions[1].excretion = <<<<14, 30>>>>
    /\ raw.prescriptions[1].other # <<>>
    /\ {s \in 1..NUM_TIMESLOTS : matrices.patient_availability[1][s] = 0}
          = {4, 5, 6, 9, 10, 15, 16, 17}

MorningSlots == {s \in 1..NUM_TIMESLOTS : generate_timeslots[s].start[1] < 12}
AfternoonSlots == {s \in 1..NUM_TIMESLOTS : generate_timeslots[s].start[1] >= 13}

\* C27: the built therapist availability is 1 in all 18 slots for the
\* full-day code, in exactly the slots starting before 12:00 for the
\* morning-only code, in exactly the slots starting at 13:00 or later for the
\* afternoon-only code, and 0 in all slots for any other or empty code and for
\* a therapist without shift entry; the morning and the afternoon slots are
\* disjoint and cover the 18 slots.
C27_TherapistAvailabilityFromShift ==
    /\ MorningSlots \cap AfternoonSlots = {}
    /\ MorningSlots \cup AfternoonSlots = 1..NUM_TIMESLOTS
    /\ pc # "build" =>
          \A j \in 1..NumTherapists(matrices) :
              LET code == raw.shifts.codes[j]
                  free == {s \in 1..NUM_TIMESLOTS :
                              matrices.therapist_availability[j][s] = 1}
              IN  /\ Len(matrices.therapist_availability[j]) = NUM_TIMESLOTS
                  /\ \A s \in 1..NUM_TIMESLOTS :
                        matrices.therapist_availability[j][s] \in {0, 1}
                  /\ free = IF code = "O" THEN 1..NUM_TIMESLOTS
                            ELSE IF code = "PN" THEN MorningSlots
                            ELSE IF code = "AN" THEN AfternoonSlots
                            ELSE {}

\* C27 witness: two therapists, one with the morning-only code and free in
\* the first nine slots, one with an unrecognized code and free in none.
C27_Witness ==
    /\ pc = "idle"
    /\ NumTherapists(matrices) = 2
    /\ raw.shifts.codes[1] = "PN"
    /\ raw.shifts.codes[2] = "X"
    /\ {s \in 1..NUM_TIMESLOTS : matrices.therapist_availability[1][s] = 1} = 1..9
    /\ \A s \in 1..NUM_TIMESLOTS : matrices.therapist_availability[2][s] = 0

\* ------------------------------------------------------ stored matrices
\* the step is a call of update_patient_availability on stored matrices
UpdateCall ==
    /\ pc = "idle"
    /\ tool = NoTool
    /\ HasMatrices(store)
    /\ response'.tool = "update_patient_availability"

\* the stored matrices after the step differ from those before in nothing
\* but the cells of the named patient for the listed slots, which hold the
\* value asked for
OnlyNamedCellsChanged ==
    LET v == response'.value
        before == store.matrices
        after == store'.matrices
        new_value == IF v.status = "available" THEN 1 ELSE 0
    IN  /\ [store' EXCEPT !.matrices = before] = store
        /\ [after EXCEPT !.patient_availability = before.patient_availability] = before
        /\ \A i \in 1..Len(before.patient_ids), s \in 1..Len(before.timeslots) :
              after.patient_availability[i][s] =
                  IF before.patient_ids[i] = v.patient_id
                     /\ before.timeslots[s] \in Range(v.timeslots)
                  THEN new_value
                  ELSE before.patient_availability[i][s]

\* C28: update_patient_availability applies all requested changes or none:
\* when it raises PatientNotFoundError or InvalidTimeslotError, also for an
\* invalid timeslot after valid ones, the store is as before; on success only
\* the named patient's cells for the listed slots change in the stored
\* matrices, everything else stays as stored.
C28_UpdateAllOrNothing ==
    [][UpdateCall =>
        IF response'.error # "none"
        THEN store' = store
        ELSE OnlyNamedCellsChanged]_vars

\* C28 witness: with two patients stored, a call naming a valid slot and
\* then an invalid one has raised InvalidTimeslotError, and the stored
\* matrices are still those that were built.
C28_Witness ==
    /\ response = Response("update_patient_availability", "InvalidTimeslotError", <<>>)
    /\ HasMatrices(store)
    /\ Len(store.matrices.patient_ids) = 2
    /\ store.matrices = BuildAllMatrices(therapists, prescriptions, raw.shifts.codes)
    /\ store.matrices.patient_availability[1][1] = 1

\* ------------------------------------------------------ DataStore calls
\* C29: on one DataStore, after any sequence of initialize(), cleanup() and
\* session() contexts, _session_active holds if and only if _temp_dir is set;
\* initialize() on an active store returns the existing directory and creates
\* none; cleanup() on an inactive store changes nothing; copy_input on an
\* inactive store raises RuntimeError and copies nothing.
C29_StoreLifecycle ==
    /\ [](store.session_active <=> store.temp_dir # NoDir)
    /\ [][(InitializeCall /\ store.session_active)
            => (store' = store /\ response'.value = store.temp_dir)]_vars
    /\ [][(CleanupCall /\ ~store.session_active) => store' = store]_vars
    /\ [][((CopyFile \/ CopyOtherInput) /\ ~store.session_active)
            => (response'.error = "RuntimeError" /\ store' = store)]_vars

\* C29 witness: the store has been initialized and cleaned up, a context
\* entered before is still open, and copy_input has raised RuntimeError on
\* the inactive store.
C29_Witness ==
    /\ response = Response("copy_input", "RuntimeError", <<>>)
    /\ store.made >= 1
    /\ ~store.session_active
    /\ store.temp_dir = NoDir
    /\ store.dirs = {}

\* ---------------------------------------------------- deployed entrypoint
\* a registered store is initialized: its session is active and its
\* temporary directory exists
Live(st) ==
    /\ st.session_active
    /\ st.temp_dir # NoDir
    /\ st.temp_dir \in st.dirs

\* a request without a session id answers with the error text and leaves the
\* dict and every store alone
NoSessionChangesNothing ==
    [][InvokeNoSession
        => /\ response'.value = NoSessionIdResult
           /\ session_datastores' = session_datastores
           /\ store' = store
           /\ request' = request]_vars

\* after an upload of a session whose store was live, the session's entry no
\* longer points at the old directory
OldStoreCleanedFirst ==
    [][\A sid \in SessionIds :
         (/\ \E copied \in 0..Len(UploadOrder) : InvokeUpload(sid, copied)
          /\ sid \in DOMAIN session_datastores
          /\ Live(session_datastores[sid]))
         => /\ sid \in DOMAIN session_datastores'
            /\ session_datastores'[sid].temp_dir
                 # session_datastores[sid].temp_dir]_vars

\* a request of one session leaves the entries of the other sessions as
\* they were
OtherSessionsUntouched ==
    [][\A sid \in SessionIds :
         (\/ InvokeFor(sid)
          \/ /\ request.session_id = sid
             /\ AgentCallsTool \/ ToolOnClosedStore \/ InvokeReturn)
         => \A other \in DOMAIN session_datastores \ {sid} :
              /\ other \in DOMAIN session_datastores'
              /\ session_datastores'[other] = session_datastores[other]]_vars

\* every store of the dict is initialized
RegisteredStoresLive ==
    \A sid \in DOMAIN session_datastores : Live(Registered(sid))

\* C30: after any sequence of invoke requests, a request without a session
\* id returns an error result and changes no state; an upload for a session
\* that already has a DataStore cleans up the old store before the new one
\* is registered; every registered DataStore is initialized (has a live
\* temporary directory), also after an upload that fails partway; and a
\* request of one session never touches the store of another session.
C30_SessionMap ==
    /\ NoSessionChangesNothing
    /\ OldStoreCleanedFirst
    /\ []RegisteredStoresLive
    /\ OtherSessionsUntouched

====
